---- MODULE Spec2Model ----
(***************************************************************************)
(* Desired-state reconciliation of the NetBird Ansible collection.         *)
(*                                                                         *)
(* The model follows plugins/modules/netbird_network.py (run_module,       *)
(* sync_routers, sync_resources and their helpers) and the payload         *)
(* builders of plugins/module_utils/netbird_api.py.  The remote control    *)
(* plane is a store that keeps exactly the payload a create/update call    *)
(* sends and assigns the id.  One module run is a linear sequence of       *)
(* collaborator calls; every call is one step of the model and may fail.   *)
(*                                                                         *)
(* Spec is netbird_network alone.  AllModules adds the run_module of every *)
(* other module of the collection (group, policy, posture check, setup     *)
(* key, route, dns, user, token, peer, account, info), one task per        *)
(* behaviour.                                                              *)
(***************************************************************************)
EXTENDS Integers, Sequences, FiniteSets, TLC

\* ------------------------------------------------------------------------
\* Bounds of the model (not program constants)
\* ------------------------------------------------------------------------
\* longest desired routers list / resources list (summed over both lists)
MaxDesired == 2
\* number of module runs in one behaviour (first run + re-runs)
MaxRuns == 2

\* ------------------------------------------------------------------------
\* Python values
\* ------------------------------------------------------------------------
\* the value None of a string-typed parameter or field
None == "None"
\* a dict that has no such key (string-valued field)
Absent == "Absent"
\* the value None of a list-typed parameter or field
NoneL == <<"None">>
\* a dict that has no such key (list-valued field)
AbsentL == <<"Absent">>

\* truthiness of a str-or-None value (`if name:`)
TruthyS(s) == s \notin {None, Absent, ""}
\* truthiness of a list-or-None value (`if peer_groups:`)
TruthyL(l) == l \notin {NoneL, AbsentL, <<>>}

\* d.get(k, []) or []  for a list-valued field
GetListOrEmpty(l) == IF l \in {NoneL, AbsentL} THEN <<>> ELSE l

\* the elements of a sequence: set(list)
ToSet(l) == {l[i] : i \in 1..Len(l)}

\* rank of a group id in Python's string order
Rank(g) == CASE g = "g1" -> 1 [] g = "g2" -> 2 [] g = "g3" -> 3 [] OTHER -> 4

RECURSIVE Insert(_, _)
\* insert x into the sorted sequence s
Insert(x, s) ==
    IF s = <<>> THEN <<x>>
    ELSE IF Rank(x) <= Rank(Head(s)) THEN <<x>> \o s
    ELSE <<Head(s)>> \o Insert(x, Tail(s))

RECURSIVE Sorted(_)
\* tuple(sorted(l))
Sorted(l) == IF l = <<>> THEN <<>> ELSE Insert(Head(l), Sorted(Tail(l)))

\* ------------------------------------------------------------------------
\* Python dicts, as insertion-ordered sequences of [k, v] entries
\* ------------------------------------------------------------------------
DictKeys(d) == {d[i].k : i \in 1..Len(d)}

DictHas(d, key) == key \in DictKeys(d)

DictGet(d, key) == d[CHOOSE i \in 1..Len(d) : d[i].k = key].v

\* d[key] = val : a present key keeps its position and takes the new value
DictPut(d, key, val) ==
    IF DictHas(d, key)
    THEN [i \in 1..Len(d) |-> IF d[i].k = key THEN [k |-> key, v |-> val] ELSE d[i]]
    ELSE Append(d, [k |-> key, v |-> val])

\* ------------------------------------------------------------------------
\* Router and resource helpers of netbird_network.py
\* ------------------------------------------------------------------------
\* router.get('peer', '')
GetPeer(router) == IF router.peer = Absent THEN "" ELSE router.peer

\* get_router_key without the `or []`: a None peer_groups is kept as it is
get_router_key_KeepsNone(router) ==
    <<GetPeer(router),
      Sorted(IF router.peer_groups = AbsentL THEN <<>> ELSE router.peer_groups)>>

\* NaturalKey of a router record read from the remote
get_router_key(router) ==
    <<GetPeer(router), Sorted(GetListOrEmpty(router.peer_groups))>>

\* DesiredRouterKey without sorted(): the list goes into the key as given
DesiredRouterKey_Unsorted(router) ==
    <<GetPeer(router), GetListOrEmpty(router.peer_groups)>>

\* key built for a desired router inside sync_routers
DesiredRouterKey(router) ==
    <<GetPeer(router), Sorted(GetListOrEmpty(router.peer_groups))>>

router_needs_update(current, desired) ==
    \/ current.metric # desired.metric
    \/ current.masquerade # desired.masquerade

\* d.get(k, '') for a string field
GetStrOrEmpty(s) == IF s = Absent THEN "" ELSE s

resource_needs_update(current, desired) ==
    \/ GetStrOrEmpty(current.name) # GetStrOrEmpty(desired.name)
    \/ GetStrOrEmpty(current.description) # GetStrOrEmpty(desired.description)
    \/ current.enabled # desired.enabled
    \/ ToSet(GetListOrEmpty(current.groups)) # ToSet(GetListOrEmpty(desired.groups))

\* network_needs_update testing the truth of the description, not `is not
\* None`: an empty description counts as not supplied
network_needs_update_SkipsEmptyDescription(current, params) ==
    \/ params.name # None /\ current.name # params.name
    \/ TruthyS(params.description) /\ current.description # params.description

network_needs_update(current, params) ==
    \/ params.name # None /\ current.name # params.name
    \/ params.description # None /\ current.description # params.description

RECURSIVE CurrentByKey(_)
\* {get_router_key(r): r for r in current_routers}
CurrentByKey(routers) ==
    IF routers = <<>> THEN <<>>
    ELSE LET r == routers[Len(routers)]
         IN DictPut(CurrentByKey(SubSeq(routers, 1, Len(routers) - 1)),
                    get_router_key(r), r)

\* the desired_by_key loop appending every router instead of assigning
\* desired_by_key[key]: a key given twice is iterated twice
DesiredByKey_KeepsDuplicates(routers) ==
    [i \in 1..Len(routers) |-> [k |-> DesiredRouterKey(routers[i]), v |-> routers[i]]]

RECURSIVE DesiredByKey(_)
\* the desired_by_key loop of sync_routers
DesiredByKey(routers) ==
    IF routers = <<>> THEN <<>>
    ELSE LET r == routers[Len(routers)]
         IN DictPut(DesiredByKey(SubSeq(routers, 1, Len(routers) - 1)),
                    DesiredRouterKey(r), r)

RECURSIVE ByAddress(_)
\* {r['address']: r for r in resources}, for the current and the desired list
ByAddress(resources) ==
    IF resources = <<>> THEN <<>>
    ELSE LET r == resources[Len(resources)]
         IN DictPut(ByAddress(SubSeq(resources, 1, Len(resources) - 1)),
                    r.address, r)

\* ------------------------------------------------------------------------
\* Payloads built by netbird_api.py
\* ------------------------------------------------------------------------
\* data of create_network_router, called as sync_routers calls it
CreateRouterData(key, desired) ==
    [peer        |-> IF TruthyS(key[1]) THEN key[1] ELSE Absent,
     peer_groups |-> IF key[2] # <<>> THEN key[2] ELSE AbsentL,
     metric      |-> desired.metric,
     masquerade  |-> desired.masquerade]

\* UpdateRouterData with peer_id=desired.get('peer_id', ''): no desired
\* record has that field, so the update sends an empty peer
UpdateRouterData_EmptyPeer(key, desired) ==
    [peer        |-> "",
     peer_groups |-> IF key[2] # <<>> THEN key[2] ELSE AbsentL,
     metric      |-> desired.metric,
     masquerade  |-> desired.masquerade]

\* data of update_network_router, called as sync_routers calls it
UpdateRouterData(key, desired) ==
    [peer        |-> IF TruthyS(key[1]) THEN key[1] ELSE Absent,
     peer_groups |-> IF key[2] # <<>> THEN key[2] ELSE AbsentL,
     metric      |-> desired.metric,
     masquerade  |-> desired.masquerade]

\* data of create_network_resource / update_network_resource
ResourceData(address, desired) ==
    [address     |-> address,
     name        |-> GetStrOrEmpty(desired.name),
     description |-> GetStrOrEmpty(desired.description),
     enabled     |-> desired.enabled,
     groups      |-> GetListOrEmpty(desired.groups)]

\* the remote keeps the fields a PUT sends and leaves the others as they are
MergeRouter(rec, data) ==
    [id          |-> rec.id,
     peer        |-> IF data.peer = Absent THEN rec.peer ELSE data.peer,
     peer_groups |-> IF data.peer_groups = AbsentL THEN rec.peer_groups
                     ELSE data.peer_groups,
     metric      |-> data.metric,
     masquerade  |-> data.masquerade]

\* the record the remote stores for a POST: the payload and a fresh id
StoreRouter(id, data) ==
    [id |-> id, peer |-> data.peer, peer_groups |-> data.peer_groups,
     metric |-> data.metric, masquerade |-> data.masquerade]

StoreResource(id, data) ==
    [id |-> id, address |-> data.address, name |-> data.name,
     description |-> data.description, enabled |-> data.enabled,
     groups |-> data.groups]

\* ------------------------------------------------------------------------
\* The plan of one collection sync: the iterations of the two loops, in order
\* ------------------------------------------------------------------------
\* RouterUpsertOp with an unmatched desired router sent as an update, of an
\* id no record gave
RouterUpsertOp_UpdatesUnmatched(cur, key, desired) ==
    IF DictHas(cur, key)
    THEN IF router_needs_update(DictGet(cur, key), desired)
         THEN [kind |-> "update", key |-> key, current |-> DictGet(cur, key),
               id |-> DictGet(cur, key).id, data |-> UpdateRouterData(key, desired)]
         ELSE [kind |-> "keep", key |-> key, current |-> DictGet(cur, key),
               id |-> DictGet(cur, key).id, data |-> UpdateRouterData(key, desired)]
    ELSE [kind |-> "update", key |-> key, current |-> StoreRouter(0, CreateRouterData(key, desired)),
          id |-> 0, data |-> UpdateRouterData(key, desired)]

\* one iteration of the create-or-update loop of sync_routers
RouterUpsertOp(cur, key, desired) ==
    IF DictHas(cur, key)
    THEN IF router_needs_update(DictGet(cur, key), desired)
         THEN [kind |-> "update", key |-> key, current |-> DictGet(cur, key),
               id |-> DictGet(cur, key).id, data |-> UpdateRouterData(key, desired)]
         ELSE [kind |-> "keep", key |-> key, current |-> DictGet(cur, key),
               id |-> DictGet(cur, key).id, data |-> UpdateRouterData(key, desired)]
    ELSE [kind |-> "create", key |-> key, current |-> StoreRouter(0, CreateRouterData(key, desired)),
          id |-> 0, data |-> CreateRouterData(key, desired)]

\* one iteration of the delete loop of sync_routers
RouterDeleteOp(entry) ==
    [kind |-> "delete", key |-> entry.k, current |-> entry.v,
     id |-> entry.v.id, data |-> UpdateRouterData(entry.k, entry.v)]

\* RouterPlan with the delete loop skipped for an empty desired list
RouterPlan_KeepsAllWhenEmpty(cur, des) ==
    IF des = <<>> THEN <<>>
    ELSE [i \in 1..Len(des) |-> RouterUpsertOp(cur, des[i].k, des[i].v)]
         \o
         LET stale == SelectSeq(cur, LAMBDA e : ~DictHas(des, e.k))
         IN [i \in 1..Len(stale) |-> RouterDeleteOp(stale[i])]

\* RouterPlan with the delete loop missing its `not in desired_by_key` test
RouterPlan_DeletesMatched(cur, des) ==
    [i \in 1..Len(des) |-> RouterUpsertOp(cur, des[i].k, des[i].v)]
    \o
    [i \in 1..Len(cur) |-> RouterDeleteOp(cur[i])]

\* RouterPlan with the delete loop placed before the create-or-update loop
RouterPlan_DeletesFirst(cur, des) ==
    LET stale == SelectSeq(cur, LAMBDA e : ~DictHas(des, e.k))
    IN [i \in 1..Len(stale) |-> RouterDeleteOp(stale[i])]
    \o
    [i \in 1..Len(des) |-> RouterUpsertOp(cur, des[i].k, des[i].v)]

RouterPlan(cur, des) ==
    [i \in 1..Len(des) |-> RouterUpsertOp(cur, des[i].k, des[i].v)]
    \o
    LET stale == SelectSeq(cur, LAMBDA e : ~DictHas(des, e.k))
    IN [i \in 1..Len(stale) |-> RouterDeleteOp(stale[i])]

\* one iteration of the create-or-update loop of sync_resources
ResourceUpsertOp(cur, address, desired) ==
    IF DictHas(cur, address)
    THEN IF resource_needs_update(DictGet(cur, address), desired)
         THEN [kind |-> "update", key |-> address, current |-> DictGet(cur, address),
               id |-> DictGet(cur, address).id, data |-> ResourceData(address, desired)]
         ELSE [kind |-> "keep", key |-> address, current |-> DictGet(cur, address),
               id |-> DictGet(cur, address).id, data |-> ResourceData(address, desired)]
    ELSE [kind |-> "create", key |-> address,
          current |-> StoreResource(0, ResourceData(address, desired)),
          id |-> 0, data |-> ResourceData(address, desired)]

\* one iteration of the delete loop of sync_resources
ResourceDeleteOp(entry) ==
    [kind |-> "delete", key |-> entry.k, current |-> entry.v,
     id |-> entry.v.id, data |-> ResourceData(entry.k, entry.v)]

\* ResourcePlan with the delete loop placed before the create-or-update loop
ResourcePlan_DeletesFirst(cur, des) ==
    LET stale == SelectSeq(cur, LAMBDA e : ~DictHas(des, e.k))
    IN [i \in 1..Len(stale) |-> ResourceDeleteOp(stale[i])]
    \o
    [i \in 1..Len(des) |-> ResourceUpsertOp(cur, des[i].k, des[i].v)]

ResourcePlan(cur, des) ==
    [i \in 1..Len(des) |-> ResourceUpsertOp(cur, des[i].k, des[i].v)]
    \o
    LET stale == SelectSeq(cur, LAMBDA e : ~DictHas(des, e.k))
    IN [i \in 1..Len(stale) |-> ResourceDeleteOp(stale[i])]

\* ------------------------------------------------------------------------
\* Inputs: module parameters as AnsibleModule hands them to run_module
\* ------------------------------------------------------------------------
\* a desired router after argument-spec defaults: every suboption is a key,
\* an omitted peer / peer_groups is None, metric and masquerade are defaulted
DesiredRouters ==
    LET RouterIdents ==
            { [peer |-> "P1", peer_groups |-> NoneL],
              [peer |-> None, peer_groups |-> <<"g1", "g2">>],
              [peer |-> None, peer_groups |-> <<"g2", "g1">>] }
        RouterSettings ==
            { [metric |-> 9999, masquerade |-> FALSE],
              [metric |-> 100, masquerade |-> TRUE] }
    IN { [peer |-> i.peer, peer_groups |-> i.peer_groups,
          metric |-> t.metric, masquerade |-> t.masquerade] :
         i \in RouterIdents, t \in RouterSettings }

\* a desired resource after argument-spec defaults
DesiredResources ==
    LET ResourceSettings ==
            { [name |-> "", description |-> "", enabled |-> TRUE, groups |-> <<>>],
              [name |-> "", description |-> "", enabled |-> TRUE,
               groups |-> <<"g1", "g2">>],
              [name |-> "web", description |-> "d", enabled |-> TRUE, groups |-> <<>>],
              [name |-> "web", description |-> "", enabled |-> FALSE, groups |-> <<>>] }
    IN { [address |-> "a1", name |-> t.name, description |-> t.description,
          enabled |-> t.enabled, groups |-> t.groups] : t \in ResourceSettings }
       \cup
       { [address |-> "a2", name |-> "", description |-> "", enabled |-> TRUE,
          groups |-> <<>>] }

\* sequences over S of length at most n
SeqUpTo(S, n) == UNION { [1..k -> S] : k \in 0..n }

\* routers / resources: omitted (given = FALSE, the parameter is None) or a list
NoList == [given |-> FALSE, list |-> <<>>]

ListParams(S, n) == {NoList} \cup { [given |-> TRUE, list |-> l] : l \in SeqUpTo(S, n) }

\* the arguments of a netbird_network task. NetworkTargets is (network_id,
\* name, description) with description defaulting to ''; state=absent reads
\* neither description nor the child lists; RejectedParams are tasks with a
\* router that names nobody, or both a peer and peer groups
Params ==
    LET NetworkTargets ==
            { [network_id |-> "n1", name |-> None, description |-> ""],
              [network_id |-> None, name |-> "net", description |-> ""],
              [network_id |-> "n1", name |-> "net2", description |-> ""],
              [network_id |-> "n1", name |-> None, description |-> "d"] }
        PresentParams ==
            { [state |-> "present", check_mode |-> c, network_id |-> t.network_id,
               name |-> t.name, description |-> t.description,
               routers |-> r, resources |-> s] :
              c \in BOOLEAN, t \in NetworkTargets,
              r \in ListParams(DesiredRouters, MaxDesired),
              s \in ListParams(DesiredResources, MaxDesired) }
        AbsentParams ==
            { [state |-> "absent", check_mode |-> c, network_id |-> t.network_id,
               name |-> t.name, description |-> "",
               routers |-> NoList, resources |-> NoList] :
              c \in BOOLEAN, t \in NetworkTargets }
        Nobody == [peer |-> None, peer_groups |-> NoneL,
                   metric |-> 9999, masquerade |-> FALSE]
        Both == [peer |-> "P1", peer_groups |-> <<"g1">>,
                 metric |-> 9999, masquerade |-> FALSE]
        BothEmpty == [peer |-> "", peer_groups |-> <<>>,
                      metric |-> 9999, masquerade |-> FALSE]
        Valid == [peer |-> "P1", peer_groups |-> NoneL,
                  metric |-> 9999, masquerade |-> FALSE]
        RejectedParams ==
            { [state |-> "present", check_mode |-> c, network_id |-> "n1",
               name |-> None, description |-> "",
               routers |-> [given |-> TRUE, list |-> l], resources |-> NoList] :
              c \in BOOLEAN,
              l \in { <<Nobody>>, <<Both>>, <<BothEmpty>>, <<Valid, Both>>,
                      <<Nobody, Valid>> } }
    IN { p \in PresentParams :
           Len(p.routers.list) + Len(p.resources.list) <= MaxDesired }
       \cup AbsentParams
       \cup RejectedParams

\* ------------------------------------------------------------------------
\* The remote control plane
\* ------------------------------------------------------------------------
\* no network (existing_network = None)
NoNet == [id |-> None, name |-> None, description |-> None]

Remotes ==
    { [net |-> NoNet, routers |-> <<>>, resources |-> <<>>],
      [net |-> [id |-> "n1", name |-> "net", description |-> ""],
       routers |-> <<>>, resources |-> <<>>],
      [net |-> [id |-> "n1", name |-> "net", description |-> ""],
       routers |-> << [id |-> 1, peer |-> "P1", peer_groups |-> AbsentL,
                       metric |-> 100, masquerade |-> FALSE] >>,
       resources |-> << [id |-> 3, address |-> "a1", name |-> "web",
                         description |-> "", enabled |-> TRUE, groups |-> <<>>] >>],
      [net |-> [id |-> "n1", name |-> "net", description |-> "d"],
       routers |-> << [id |-> 1, peer |-> "", peer_groups |-> <<"g2", "g1">>,
                       metric |-> 9999, masquerade |-> FALSE],
                      [id |-> 2, peer |-> "P1", peer_groups |-> AbsentL,
                       metric |-> 9999, masquerade |-> TRUE] >>,
       resources |-> << [id |-> 3, address |-> "a2", name |-> "",
                         description |-> "", enabled |-> TRUE, groups |-> <<>>],
                        [id |-> 4, address |-> "a1", name |-> "",
                         description |-> "", enabled |-> TRUE,
                         groups |-> <<"g2", "g1">>] >>] }

\* the ids in use in a remote; the remote hands out ids above them
IdsOf(rem) ==
    {rem.routers[i].id : i \in 1..Len(rem.routers)}
    \cup {rem.resources[i].id : i \in 1..Len(rem.resources)}

FirstFreeId(rem) ==
    IF IdsOf(rem) = {} THEN 1
    ELSE 1 + CHOOSE m \in IdsOf(rem) : \A x \in IdsOf(rem) : x <= m

\* collaborator calls that change the remote (POST / PUT / DELETE)
Mutating ==
    { "create_network", "update_network", "delete_network",
      "create_network_router", "update_network_router", "delete_network_router",
      "create_network_resource", "update_network_resource",
      "delete_network_resource",
      "create_group", "update_group", "delete_group",
      "create_policy", "update_policy", "delete_policy",
      "create_posture_check", "update_posture_check", "delete_posture_check",
      "create_setup_key", "update_setup_key", "delete_setup_key",
      "create_route", "update_route", "delete_route",
      "create_nameserver_group", "update_nameserver_group",
      "delete_nameserver_group", "update_dns_settings",
      "create_user", "update_user", "delete_user", "resend_user_invitation",
      "create_token", "delete_token",
      "update_peer", "delete_peer",
      "update_account", "delete_account" }

\* collaborator calls that only read (GET)
Reading ==
    { "get_network", "list_networks", "list_network_routers",
      "list_network_resources",
      "get_group", "list_groups", "get_policy", "list_policies",
      "get_posture_check", "list_posture_checks",
      "get_setup_key", "list_setup_keys", "get_route", "list_routes",
      "get_nameserver_group", "list_nameserver_groups", "get_dns_settings",
      "list_users", "list_tokens", "get_peer", "list_accounts" }

\* what open_url ends with when it returns no response: an HTTPError with
\* its code and body (JSON with a message, text that is not JSON, or empty),
\* a URLError or an ssl.SSLError
RequestFailures ==
    { [raised |-> "HTTPError", code |-> 404, body |-> "json"],
      [raised |-> "HTTPError", code |-> 500, body |-> "json"],
      [raised |-> "HTTPError", code |-> 400, body |-> "text"],
      [raised |-> "HTTPError", code |-> 503, body |-> ""],
      [raised |-> "URLError", code |-> 0, body |-> ""],
      [raised |-> "SSLError", code |-> 0, body |-> ""] }

\* RequestError with the status_code left at the default of NetBirdAPIError
\* (None) when no response was received
RequestError_NoStatus(failure) ==
    IF failure.raised = "HTTPError"
    THEN [message |-> "API request failed", status_code |-> failure.code,
          response |-> CASE failure.body = "json" -> "error body"
                         [] failure.body = "text" -> "error text"
                         [] OTHER -> None]
    ELSE [message |-> IF failure.raised = "URLError"
                      THEN "Failed to connect to API" ELSE "SSL error",
          status_code |-> 0, response |-> None]

\* the NetBirdAPIError that _request raises for it
RequestError(failure) ==
    IF failure.raised = "HTTPError"
    THEN [message |-> "API request failed", status_code |-> failure.code,
          response |-> CASE failure.body = "json" -> "error body"
                         [] failure.body = "text" -> "error text"
                         [] OTHER -> None]
    ELSE [message |-> IF failure.raised = "URLError"
                      THEN "Failed to connect to API" ELSE "SSL error",
          status_code |-> -1, response |-> None]

\* status codes of an injected collaborator failure: a server error and a
\* lost connection (a 404 is injected where a lookup by id expects it)
FailStatus ==
    {RequestError(f).status_code : f \in {g \in RequestFailures : g.code \in {0, 500}}}

\* existing_<entity> = None in a single-entity module
NoEntity == [id |-> None]

\* the DNS settings of a fresh account
NoSettings == [disabled_management_groups |-> <<>>]

\* ------------------------------------------------------------------------
\* State
\* ------------------------------------------------------------------------
VARIABLES
    net,          \* remote: the network record, or NoNet
    routers,      \* remote: the network's routers, in listing order
    resources,    \* remote: the network's resources, in listing order
    nextId,       \* remote: next id to assign
    params,       \* module.params of the run
    pc,           \* position of the run in run_module
    current_network_id,
    network_changed,
    plan,         \* iterations of the running sync_routers / sync_resources
    pos,          \* index of the next iteration
    final,        \* final_routers / final_resources built so far
    chg,          \* local `changed` of the running sync
    result,       \* what exit_json / fail_json hands back
    calls,        \* collaborator calls issued by the run, in order
    runs,         \* number of runs started
    start,        \* the remote when the run started
    prev,         \* outcome of the previous run of the same parameters
    module,       \* the module whose run_module runs
    entities,     \* remote: the entities a single-entity module manages
    dns_settings, \* remote: the DNS settings singleton
    existing_entity  \* existing_<entity> of the running single-entity module

vars == <<net, routers, resources, nextId, params, pc, current_network_id,
          network_changed, plan, pos, final, chg, result, calls, runs,
          start, prev, module, entities, dns_settings, existing_entity>>

remoteVars == <<net, routers, resources, nextId>>
syncVars == <<plan, pos, final, chg>>
runVars == <<params, runs, start, prev, module>>
\* state of the single-entity modules, untouched by netbird_network
entityVars == <<entities, dns_settings, existing_entity>>

\* result = dict(changed=False, network={}, routers_changed=False, ...)
InitResult ==
    [failed |-> FALSE, changed |-> FALSE, routers_changed |-> FALSE,
     resources_changed |-> FALSE, network |-> NoNet,
     has_routers |-> FALSE, routers |-> <<>>,
     has_resources |-> FALSE, resources |-> <<>>,
     msg |-> "", status_code |-> 0, response |-> Absent]

\* module.fail_json(msg=..., status_code=..., response=...): the result dict
\* built so far is not passed on; a failure that is not a failed call has no
\* status_code and no response
FailResult(msg, status) ==
    [InitResult EXCEPT !.failed = TRUE, !.msg = msg, !.status_code = status]

NoPrev == [valid |-> FALSE, check_mode |-> FALSE, changed |-> FALSE,
           routers_changed |-> FALSE, resources_changed |-> FALSE]

Call(op, id, ok) == [op |-> op, id |-> id, ok |-> ok]

\* the state before the first run, the remote being one of rems
InitFrom(rems) ==
    /\ \E rem \in rems :
          /\ net = rem.net
          /\ routers = rem.routers
          /\ resources = rem.resources
          /\ nextId = FirstFreeId(rem)
          /\ start = rem
    /\ params \in {[state |-> "absent", check_mode |-> TRUE, network_id |-> None,
                    name |-> None, description |-> "",
                    routers |-> NoList, resources |-> NoList]}
    /\ pc = "idle"
    /\ current_network_id = None
    /\ network_changed = FALSE
    /\ plan = <<>>
    /\ pos = 1
    /\ final = <<>>
    /\ chg = FALSE
    /\ result = InitResult
    /\ calls = <<>>
    /\ runs = 0
    /\ prev = NoPrev
    /\ module = "netbird_network"
    /\ entities = <<>>
    /\ dns_settings = NoSettings
    /\ existing_entity = NoEntity

Init == InitFrom(Remotes)

\* a remote as an applied run of a one-router, one-resource task left it
SyncedRemote ==
    [net |-> [id |-> "n1", name |-> "net", description |-> ""],
     routers |-> << [id |-> 1, peer |-> "P1", peer_groups |-> AbsentL,
                     metric |-> 9999, masquerade |-> FALSE] >>,
     resources |-> << [id |-> 3, address |-> "a1", name |-> "",
                       description |-> "", enabled |-> TRUE, groups |-> <<>>] >>]

\* locals of a fresh run
ResetRun ==
    /\ pc' = "lookup"
    /\ current_network_id' = None
    /\ network_changed' = FALSE
    /\ plan' = <<>>
    /\ pos' = 1
    /\ final' = <<>>
    /\ chg' = FALSE
    /\ result' = InitResult
    /\ calls' = <<>>
    /\ start' = [net |-> net, routers |-> routers, resources |-> resources]
    /\ UNCHANGED <<remoteVars, entityVars, module>>

\* RoutersValid without mutually_exclusive=[('peer', 'peer_groups')]
RoutersValid_NotExclusive(p) ==
    \A i \in 1..Len(p.routers.list) :
        LET r == p.routers.list[i]
        IN r.peer # None \/ r.peer_groups # NoneL

\* the routers suboptions' required_one_of=[('peer', 'peer_groups')] and
\* mutually_exclusive=[('peer', 'peer_groups')], checked by AnsibleModule on
\* the keys the task supplies; a key the task omits reads None afterwards
RoutersValid(p) ==
    \A i \in 1..Len(p.routers.list) :
        LET r == p.routers.list[i]
        IN /\ r.peer # None \/ r.peer_groups # NoneL
           /\ ~(r.peer # None /\ r.peer_groups # NoneL)

\* a first run with parameters p: AnsibleModule(argument_spec=...) fails the
\* task on invalid arguments, before NetBirdAPI is built
StartRun(p) ==
    /\ pc = "idle"
    /\ module = "netbird_network"
    /\ params' = p
    /\ runs' = 1
    /\ prev' = NoPrev
    /\ IF RoutersValid(p)
       THEN ResetRun
       ELSE /\ pc' = "done"
            /\ result' = FailResult("invalid router: exactly one of peer, peer_groups", 0)
            /\ calls' = <<>>
            /\ current_network_id' = None
            /\ network_changed' = FALSE
            /\ plan' = <<>>
            /\ pos' = 1
            /\ final' = <<>>
            /\ chg' = FALSE
            /\ start' = [net |-> net, routers |-> routers, resources |-> resources]
            /\ UNCHANGED <<remoteVars, entityVars, module>>

\* the same task is run again, this time not in check mode
Rerun ==
    /\ pc = "done"
    /\ module = "netbird_network"
    /\ runs < MaxRuns
    /\ ~result.failed
    /\ params' = [params EXCEPT !.check_mode = FALSE]
    /\ runs' = runs + 1
    /\ prev' = [valid |-> TRUE, check_mode |-> params.check_mode,
                changed |-> result.changed,
                routers_changed |-> result.routers_changed,
                resources_changed |-> result.resources_changed]
    /\ ResetRun

\* Fail as a retry: the failed call is logged and the step is taken again
Fail_Retries(op, id, status) ==
    /\ result' = result
    /\ calls' = Append(calls, Call(op, id, FALSE))
    /\ pc' = pc

\* except NetBirdAPIError as e: module.fail_json(...)
Fail(op, id, status) ==
    /\ \E f \in RequestFailures :
          /\ RequestError(f).status_code = status
          /\ result' = [FailResult(RequestError(f).message, status)
                           EXCEPT !.response = RequestError(f).response]
    /\ calls' = Append(calls, Call(op, id, FALSE))
    /\ pc' = "done"

\* AfterResources without `if network_changed: result['changed'] = True`
AfterResources_DropsNetworkChange(res, nc) ==
    [pc |-> IF ~params.check_mode /\ (params.routers.given \/ params.resources.given)
            THEN "refresh" ELSE "done",
     result |-> res]

\* where run_module goes once the network itself is settled
AfterResources(res, nc) ==
    [pc |-> IF ~params.check_mode /\ (params.routers.given \/ params.resources.given)
            THEN "refresh" ELSE "done",
     result |-> [res EXCEPT !.changed = @ \/ nc]]

AfterRouters(res, nc) ==
    IF params.resources.given
    THEN [pc |-> "list_resources", result |-> res]
    ELSE AfterResources(res, nc)

\* AfterNetwork with `if routers is not None` dropped: None is synced as []
AfterNetwork_SyncsOmitted(res, nc) ==
    [pc |-> "list_routers", result |-> res]

AfterNetwork(res, nc) ==
    IF params.routers.given
    THEN [pc |-> "list_routers", result |-> res]
    ELSE AfterRouters(res, nc)

\* Decide without the exit_json of the check-mode create: the syncs follow
Decide_DryRunSyncsNewNetwork(existing, log) ==
    /\ calls' = log
    /\ UNCHANGED <<remoteVars, syncVars, runVars, entityVars>>
    /\ IF params.state = "absent"
       THEN /\ UNCHANGED network_changed
            /\ current_network_id' = existing.id
            /\ result' = IF existing # NoNet /\ params.check_mode
                          THEN [result EXCEPT !.changed = TRUE,
                                              !.msg = "Network deleted successfully"]
                          ELSE result
            /\ pc' = IF existing # NoNet /\ ~params.check_mode
                      THEN "delete_network" ELSE "done"
       ELSE IF existing # NoNet
       THEN /\ current_network_id' = existing.id
            /\ IF network_needs_update(existing, params)
               THEN IF ~params.check_mode
                    THEN /\ pc' = "update_network"
                         /\ result' = result
                         /\ UNCHANGED network_changed
                    ELSE LET n == AfterNetwork([result EXCEPT !.network = existing], TRUE)
                         IN /\ pc' = n.pc
                            /\ result' = n.result
                            /\ network_changed' = TRUE
               ELSE LET n == AfterNetwork([result EXCEPT !.network = existing], FALSE)
                    IN /\ pc' = n.pc
                       /\ result' = n.result
                       /\ UNCHANGED network_changed
       ELSE /\ UNCHANGED <<current_network_id, network_changed>>
            /\ IF ~TruthyS(params.name)
               THEN /\ pc' = "done"
                    /\ result' = FailResult("name is required when creating a new network", 0)
               ELSE IF ~params.check_mode
               THEN /\ pc' = "create_network"
                    /\ result' = result
               ELSE LET n == AfterNetwork(
                                 [result EXCEPT !.changed = TRUE,
                                     !.network = [id |-> Absent, name |-> params.name,
                                                  description |-> params.description]],
                                 TRUE)
                    IN /\ pc' = n.pc
                       /\ result' = n.result

\* run_module from the lookup's outcome to the next collaborator call
Decide(existing, log) ==
    /\ calls' = log
    /\ UNCHANGED <<remoteVars, syncVars, runVars, entityVars>>
    /\ IF params.state = "absent"
       THEN /\ UNCHANGED network_changed
            /\ current_network_id' = existing.id
            /\ result' = IF existing # NoNet /\ params.check_mode
                          THEN [result EXCEPT !.changed = TRUE,
                                              !.msg = "Network deleted successfully"]
                          ELSE result
            /\ pc' = IF existing # NoNet /\ ~params.check_mode
                      THEN "delete_network" ELSE "done"
       ELSE IF existing # NoNet
       THEN /\ current_network_id' = existing.id
            /\ IF network_needs_update(existing, params)
               THEN IF ~params.check_mode
                    THEN /\ pc' = "update_network"
                         /\ result' = result
                         /\ UNCHANGED network_changed
                    ELSE LET n == AfterNetwork([result EXCEPT !.network = existing], TRUE)
                         IN /\ pc' = n.pc
                            /\ result' = n.result
                            /\ network_changed' = TRUE
               ELSE LET n == AfterNetwork([result EXCEPT !.network = existing], FALSE)
                    IN /\ pc' = n.pc
                       /\ result' = n.result
                       /\ UNCHANGED network_changed
       ELSE /\ UNCHANGED <<current_network_id, network_changed>>
            /\ IF ~TruthyS(params.name)
               THEN /\ pc' = "done"
                    /\ result' = FailResult("name is required when creating a new network", 0)
               ELSE IF ~params.check_mode
               THEN /\ pc' = "create_network"
                    /\ result' = result
               ELSE /\ pc' = "done"
                    /\ result' = [result EXCEPT !.changed = TRUE,
                                     !.network = [id |-> Absent, name |-> params.name,
                                                  description |-> params.description]]

\* the network record the collaborator answers with: the stored fields and
\* the counts documented in RETURN (routing_peers_count, resources_count)
NetworkRecord(n, rs, res) ==
    [id |-> n.id, name |-> n.name, description |-> n.description,
     routing_peers_count |-> Len(rs), resources_count |-> Len(res)]

\* api.get_network(network_id), a 404 meaning "no such network"
GetNetwork ==
    /\ pc = "lookup"
    /\ TruthyS(params.network_id)
    /\ \/ /\ net # NoNet /\ net.id = params.network_id
          /\ Decide(NetworkRecord(net, routers, resources),
                    Append(calls, Call("get_network", params.network_id, TRUE)))
       \/ /\ ~(net # NoNet /\ net.id = params.network_id)
          /\ Decide(NoNet, Append(calls, Call("get_network", params.network_id, FALSE)))
       \/ /\ \E st \in FailStatus : Fail("get_network", params.network_id, st)
          /\ UNCHANGED <<remoteVars, syncVars, runVars, entityVars, current_network_id, network_changed>>

\* find_network_by_name(api, name)
FindNetworkByName ==
    /\ pc = "lookup"
    /\ ~TruthyS(params.network_id)
    /\ TruthyS(params.name)
    /\ \/ Decide(IF net # NoNet /\ net.name = params.name
                 THEN NetworkRecord(net, routers, resources) ELSE NoNet,
                 Append(calls, Call("list_networks", None, TRUE)))
       \/ /\ \E st \in FailStatus : Fail("list_networks", None, st)
          /\ UNCHANGED <<remoteVars, syncVars, runVars, entityVars, current_network_id, network_changed>>

\* api.delete_network(existing_network['id']): the module sends the one DELETE;
\* what the remote does with the children of a deleted network is not its
\* business, they stay stored out of reach until a network is created
DeleteNetwork ==
    /\ pc = "delete_network"
    /\ UNCHANGED <<syncVars, runVars, entityVars, current_network_id, network_changed>>
    /\ \/ /\ net # NoNet /\ net.id = current_network_id
          /\ net' = NoNet
          /\ UNCHANGED <<routers, resources, nextId>>
          /\ calls' = Append(calls, Call("delete_network", current_network_id, TRUE))
          /\ result' = [result EXCEPT !.changed = TRUE,
                                      !.msg = "Network deleted successfully"]
          /\ pc' = "done"
       \/ /\ \E st \in FailStatus : Fail("delete_network", current_network_id, st)
          /\ UNCHANGED remoteVars

\* data of update_network: only the arguments that are not None are sent
UpdateNetworkData(cur, name, description) ==
    [id          |-> cur.id,
     name        |-> IF name # None THEN name ELSE cur.name,
     description |-> IF description # None THEN description ELSE cur.description]

\* api.update_network(current_network_id, name=name, description=description)
UpdateNetwork ==
    /\ pc = "update_network"
    /\ UNCHANGED <<syncVars, runVars, entityVars, current_network_id>>
    /\ \/ /\ net # NoNet /\ net.id = current_network_id
          /\ net' = UpdateNetworkData(net, params.name, params.description)
          /\ UNCHANGED <<routers, resources, nextId>>
          /\ calls' = Append(calls, Call("update_network", current_network_id, TRUE))
          /\ network_changed' = TRUE
          /\ LET n == AfterNetwork([result EXCEPT !.network =
                                        NetworkRecord(net', routers', resources')], TRUE)
             IN pc' = n.pc /\ result' = n.result
       \/ /\ \E st \in FailStatus : Fail("update_network", current_network_id, st)
          /\ UNCHANGED <<remoteVars, network_changed>>

\* api.create_network(name=name, description=description)
CreateNetwork ==
    /\ pc = "create_network"
    /\ UNCHANGED <<syncVars, runVars, entityVars>>
    /\ \/ /\ net' = [id |-> "n1", name |-> params.name,
                     description |-> params.description]
          /\ routers' = <<>>
          /\ resources' = <<>>
          /\ UNCHANGED nextId
          /\ calls' = Append(calls, Call("create_network", None, TRUE))
          /\ current_network_id' = "n1"
          /\ network_changed' = TRUE
          /\ LET n == AfterNetwork([result EXCEPT !.network =
                                        NetworkRecord(net', routers', resources')], TRUE)
             IN pc' = n.pc /\ result' = n.result
       \/ /\ \E st \in FailStatus : Fail("create_network", None, st)
          /\ UNCHANGED <<remoteVars, current_network_id, network_changed>>

\* ------------------------------------------------------------------------
\* sync_routers
\* ------------------------------------------------------------------------
\* the record with the given id, in a remote collection
HasId(coll, id) == \E i \in 1..Len(coll) : coll[i].id = id

IndexOfId(coll, id) == CHOOSE i \in 1..Len(coll) : coll[i].id = id

RemoveId(coll, id) == SelectSeq(coll, LAMBDA r : r.id # id)

\* the statuses an update or delete of record `id` can fail with: any request
\* failure, and HTTP 404 when the record is no longer on the remote
WriteFailStatus(coll, id) ==
    FailStatus \cup (IF HasId(coll, id) THEN {} ELSE {404})

\* current_routers, _ = api.list_network_routers(network_id), and the two maps
ListRouters ==
    /\ pc = "list_routers"
    /\ UNCHANGED <<remoteVars, runVars, entityVars, current_network_id, network_changed>>
    /\ \/ /\ plan' = RouterPlan(CurrentByKey(routers), DesiredByKey(params.routers.list))
          /\ pos' = 1
          /\ final' = <<>>
          /\ chg' = FALSE
          /\ calls' = Append(calls, Call("list_network_routers", current_network_id, TRUE))
          /\ pc' = "sync_routers"
          /\ UNCHANGED result
       \/ /\ \E st \in FailStatus : Fail("list_network_routers", current_network_id, st)
          /\ UNCHANGED syncVars

\* a matched router that needs no update
RouterKeep ==
    /\ pc = "sync_routers"
    /\ pos <= Len(plan)
    /\ plan[pos].kind = "keep"
    /\ final' = Append(final, plan[pos].current)
    /\ pos' = pos + 1
    /\ UNCHANGED <<remoteVars, runVars, entityVars, current_network_id, network_changed,
                   plan, chg, result, calls, pc>>

\* RouterUpdate with the not-found failure of the call caught and the router
\* skipped: try: api.update_network_router(...) except NetBirdAPIError: pass
RouterUpdate_SwallowsNotFound ==
    /\ pc = "sync_routers"
    /\ pos <= Len(plan)
    /\ plan[pos].kind = "update"
    /\ UNCHANGED <<runVars, entityVars, current_network_id, network_changed, plan>>
    /\ IF params.check_mode
       THEN /\ final' = Append(final, plan[pos].current)
            /\ chg' = TRUE
            /\ pos' = pos + 1
            /\ UNCHANGED <<remoteVars, result, calls, pc>>
       ELSE \/ /\ HasId(routers, plan[pos].id)
               /\ LET i == IndexOfId(routers, plan[pos].id)
                      updated == MergeRouter(routers[i], plan[pos].data)
                  IN /\ routers' = [routers EXCEPT ![i] = updated]
                     /\ final' = Append(final, updated)
               /\ chg' = TRUE
               /\ pos' = pos + 1
               /\ calls' = Append(calls, Call("update_network_router", plan[pos].id, TRUE))
               /\ UNCHANGED <<net, resources, nextId, result, pc>>
            \/ /\ ~HasId(routers, plan[pos].id)
               /\ pos' = pos + 1
               /\ calls' = Append(calls, Call("update_network_router", plan[pos].id, FALSE))
               /\ UNCHANGED <<remoteVars, final, chg, result, pc>>
            \/ /\ \E st \in FailStatus : Fail("update_network_router", plan[pos].id, st)
               /\ UNCHANGED <<remoteVars, pos, final, chg>>

\* a matched router that differs: api.update_network_router(...)
RouterUpdate ==
    /\ pc = "sync_routers"
    /\ pos <= Len(plan)
    /\ plan[pos].kind = "update"
    /\ UNCHANGED <<runVars, entityVars, current_network_id, network_changed, plan>>
    /\ IF params.check_mode
       THEN /\ final' = Append(final, plan[pos].current)
            /\ chg' = TRUE
            /\ pos' = pos + 1
            /\ UNCHANGED <<remoteVars, result, calls, pc>>
       ELSE \/ /\ HasId(routers, plan[pos].id)
               /\ LET i == IndexOfId(routers, plan[pos].id)
                      updated == MergeRouter(routers[i], plan[pos].data)
                  IN /\ routers' = [routers EXCEPT ![i] = updated]
                     /\ final' = Append(final, updated)
               /\ chg' = TRUE
               /\ pos' = pos + 1
               /\ calls' = Append(calls, Call("update_network_router", plan[pos].id, TRUE))
               /\ UNCHANGED <<net, resources, nextId, result, pc>>
            \/ /\ \E st \in WriteFailStatus(routers, plan[pos].id) :
                     Fail("update_network_router", plan[pos].id, st)
               /\ UNCHANGED <<remoteVars, pos, final, chg>>

\* a desired router with no match: api.create_network_router(...)
RouterCreate ==
    /\ pc = "sync_routers"
    /\ pos <= Len(plan)
    /\ plan[pos].kind = "create"
    /\ UNCHANGED <<runVars, entityVars, current_network_id, network_changed, plan>>
    /\ IF params.check_mode
       THEN /\ chg' = TRUE
            /\ pos' = pos + 1
            /\ UNCHANGED <<remoteVars, final, result, calls, pc>>
       ELSE \/ /\ LET created == StoreRouter(nextId, plan[pos].data)
                  IN /\ routers' = Append(routers, created)
                     /\ final' = Append(final, created)
               /\ nextId' = nextId + 1
               /\ chg' = TRUE
               /\ pos' = pos + 1
               /\ calls' = Append(calls, Call("create_network_router", 0, TRUE))
               /\ UNCHANGED <<net, resources, result, pc>>
            \/ /\ \E st \in FailStatus : Fail("create_network_router", 0, st)
               /\ UNCHANGED <<remoteVars, pos, final, chg>>

\* RouterDelete with changed = True moved inside `if not module.check_mode:`
RouterDelete_SilentDryRun ==
    /\ pc = "sync_routers"
    /\ pos <= Len(plan)
    /\ plan[pos].kind = "delete"
    /\ UNCHANGED <<runVars, entityVars, current_network_id, network_changed, plan, final>>
    /\ IF params.check_mode
       THEN /\ pos' = pos + 1
            /\ UNCHANGED <<remoteVars, result, calls, pc, chg>>
       ELSE \/ /\ HasId(routers, plan[pos].id)
               /\ routers' = RemoveId(routers, plan[pos].id)
               /\ chg' = TRUE
               /\ pos' = pos + 1
               /\ calls' = Append(calls, Call("delete_network_router", plan[pos].id, TRUE))
               /\ UNCHANGED <<net, resources, nextId, result, pc>>
            \/ /\ \E st \in WriteFailStatus(routers, plan[pos].id) :
                     Fail("delete_network_router", plan[pos].id, st)
               /\ UNCHANGED <<remoteVars, pos, chg>>

\* a current router with no desired match: api.delete_network_router(...)
RouterDelete ==
    /\ pc = "sync_routers"
    /\ pos <= Len(plan)
    /\ plan[pos].kind = "delete"
    /\ UNCHANGED <<runVars, entityVars, current_network_id, network_changed, plan, final>>
    /\ IF params.check_mode
       THEN /\ chg' = TRUE
            /\ pos' = pos + 1
            /\ UNCHANGED <<remoteVars, result, calls, pc>>
       ELSE \/ /\ HasId(routers, plan[pos].id)
               /\ routers' = RemoveId(routers, plan[pos].id)
               /\ chg' = TRUE
               /\ pos' = pos + 1
               /\ calls' = Append(calls, Call("delete_network_router", plan[pos].id, TRUE))
               /\ UNCHANGED <<net, resources, nextId, result, pc>>
            \/ /\ \E st \in WriteFailStatus(routers, plan[pos].id) :
                     Fail("delete_network_router", plan[pos].id, st)
               /\ UNCHANGED <<remoteVars, pos, chg>>

\* return changed, final_routers; and run_module's use of the pair
RoutersReturn ==
    /\ pc = "sync_routers"
    /\ pos > Len(plan)
    /\ LET n == AfterRouters([result EXCEPT !.routers_changed = chg,
                                            !.has_routers = TRUE,
                                            !.routers = final,
                                            !.changed = @ \/ chg],
                             network_changed)
       IN pc' = n.pc /\ result' = n.result
    /\ UNCHANGED <<remoteVars, runVars, entityVars, syncVars, current_network_id,
                   network_changed, calls>>

\* ------------------------------------------------------------------------
\* sync_resources
\* ------------------------------------------------------------------------
\* the remote keeps the fields a PUT sends; update_network_resource sends all
MergeResource(rec, data) ==
    [id |-> rec.id, address |-> data.address, name |-> data.name,
     description |-> data.description, enabled |-> data.enabled,
     groups |-> data.groups]

\* current_resources, _ = api.list_network_resources(network_id), and the maps
ListResources ==
    /\ pc = "list_resources"
    /\ UNCHANGED <<remoteVars, runVars, entityVars, current_network_id, network_changed>>
    /\ \/ /\ plan' = ResourcePlan(ByAddress(resources), ByAddress(params.resources.list))
          /\ pos' = 1
          /\ final' = <<>>
          /\ chg' = FALSE
          /\ calls' = Append(calls, Call("list_network_resources", current_network_id, TRUE))
          /\ pc' = "sync_resources"
          /\ UNCHANGED result
       \/ /\ \E st \in FailStatus : Fail("list_network_resources", current_network_id, st)
          /\ UNCHANGED syncVars

\* a matched resource that needs no update
ResourceKeep ==
    /\ pc = "sync_resources"
    /\ pos <= Len(plan)
    /\ plan[pos].kind = "keep"
    /\ final' = Append(final, plan[pos].current)
    /\ pos' = pos + 1
    /\ UNCHANGED <<remoteVars, runVars, entityVars, current_network_id, network_changed,
                   plan, chg, result, calls, pc>>

\* a matched resource that differs: api.update_network_resource(...)
ResourceUpdate ==
    /\ pc = "sync_resources"
    /\ pos <= Len(plan)
    /\ plan[pos].kind = "update"
    /\ UNCHANGED <<runVars, entityVars, current_network_id, network_changed, plan>>
    /\ IF params.check_mode
       THEN /\ final' = Append(final, plan[pos].current)
            /\ chg' = TRUE
            /\ pos' = pos + 1
            /\ UNCHANGED <<remoteVars, result, calls, pc>>
       ELSE \/ /\ HasId(resources, plan[pos].id)
               /\ LET i == IndexOfId(resources, plan[pos].id)
                      updated == MergeResource(resources[i], plan[pos].data)
                  IN /\ resources' = [resources EXCEPT ![i] = updated]
                     /\ final' = Append(final, updated)
               /\ chg' = TRUE
               /\ pos' = pos + 1
               /\ calls' = Append(calls, Call("update_network_resource", plan[pos].id, TRUE))
               /\ UNCHANGED <<net, routers, nextId, result, pc>>
            \/ /\ \E st \in WriteFailStatus(resources, plan[pos].id) :
                     Fail("update_network_resource", plan[pos].id, st)
               /\ UNCHANGED <<remoteVars, pos, final, chg>>

\* a desired resource with no match: api.create_network_resource(...)
ResourceCreate ==
    /\ pc = "sync_resources"
    /\ pos <= Len(plan)
    /\ plan[pos].kind = "create"
    /\ UNCHANGED <<runVars, entityVars, current_network_id, network_changed, plan>>
    /\ IF params.check_mode
       THEN /\ chg' = TRUE
            /\ pos' = pos + 1
            /\ UNCHANGED <<remoteVars, final, result, calls, pc>>
       ELSE \/ /\ LET created == StoreResource(nextId, plan[pos].data)
                  IN /\ resources' = Append(resources, created)
                     /\ final' = Append(final, created)
               /\ nextId' = nextId + 1
               /\ chg' = TRUE
               /\ pos' = pos + 1
               /\ calls' = Append(calls, Call("create_network_resource", 0, TRUE))
               /\ UNCHANGED <<net, routers, result, pc>>
            \/ /\ \E st \in FailStatus : Fail("create_network_resource", 0, st)
               /\ UNCHANGED <<remoteVars, pos, final, chg>>

\* a current resource with no desired match: api.delete_network_resource(...)
ResourceDelete ==
    /\ pc = "sync_resources"
    /\ pos <= Len(plan)
    /\ plan[pos].kind = "delete"
    /\ UNCHANGED <<runVars, entityVars, current_network_id, network_changed, plan, final>>
    /\ IF params.check_mode
       THEN /\ chg' = TRUE
            /\ pos' = pos + 1
            /\ UNCHANGED <<remoteVars, result, calls, pc>>
       ELSE \/ /\ HasId(resources, plan[pos].id)
               /\ resources' = RemoveId(resources, plan[pos].id)
               /\ chg' = TRUE
               /\ pos' = pos + 1
               /\ calls' = Append(calls, Call("delete_network_resource", plan[pos].id, TRUE))
               /\ UNCHANGED <<net, routers, nextId, result, pc>>
            \/ /\ \E st \in WriteFailStatus(resources, plan[pos].id) :
                     Fail("delete_network_resource", plan[pos].id, st)
               /\ UNCHANGED <<remoteVars, pos, chg>>

\* return changed, final_resources; and run_module's use of the pair
ResourcesReturn ==
    /\ pc = "sync_resources"
    /\ pos > Len(plan)
    /\ LET n == AfterResources([result EXCEPT !.resources_changed = chg,
                                              !.has_resources = TRUE,
                                              !.resources = final,
                                              !.changed = @ \/ chg],
                               network_changed)
       IN pc' = n.pc /\ result' = n.result
    /\ UNCHANGED <<remoteVars, runVars, entityVars, syncVars, current_network_id,
                   network_changed, calls>>

\* result['network'] = refreshed_network: the record replaces the dict that
\* held the 'routers' and 'resources' entries
Refreshed(res, refreshed_network) ==
    [res EXCEPT !.network = refreshed_network,
                !.has_routers = FALSE, !.routers = <<>>,
                !.has_resources = FALSE, !.resources = <<>>]

\* RefreshNetwork without the saved_routers / saved_resources lines
RefreshNetwork_DropsSavedLists ==
    /\ pc = "refresh"
    /\ UNCHANGED <<remoteVars, runVars, entityVars, syncVars, current_network_id, network_changed>>
    /\ \/ /\ net # NoNet /\ net.id = current_network_id
          /\ result' = Refreshed(result, NetworkRecord(net, routers, resources))
          /\ calls' = Append(calls, Call("get_network", current_network_id, TRUE))
          /\ pc' = "done"
       \/ \E st \in FailStatus : Fail("get_network", current_network_id, st)

\* refreshed_network, _ = api.get_network(current_network_id); the lists
\* built by the syncs are saved and put back into the refreshed record
RefreshNetwork ==
    /\ pc = "refresh"
    /\ UNCHANGED <<remoteVars, runVars, entityVars, syncVars, current_network_id, network_changed>>
    /\ \/ /\ net # NoNet /\ net.id = current_network_id
          /\ LET saved_routers == [given |-> result.has_routers,
                                   list |-> result.routers]
                 saved_resources == [given |-> result.has_resources,
                                     list |-> result.resources]
                 r == Refreshed(result, NetworkRecord(net, routers, resources))
             IN result' = [r EXCEPT
                              !.has_routers = saved_routers.given,
                              !.routers = IF saved_routers.given
                                          THEN saved_routers.list ELSE @,
                              !.has_resources = saved_resources.given,
                              !.resources = IF saved_resources.given
                                            THEN saved_resources.list ELSE @]
          /\ calls' = Append(calls, Call("get_network", current_network_id, TRUE))
          /\ pc' = "done"
       \/ \E st \in FailStatus : Fail("get_network", current_network_id, st)

Next ==
    \/ (pc = "idle" /\ module = "netbird_network" /\ \E p \in Params : StartRun(p))
    \/ Rerun
    \/ GetNetwork
    \/ FindNetworkByName
    \/ DeleteNetwork
    \/ UpdateNetwork
    \/ CreateNetwork
    \/ ListRouters
    \/ RouterKeep
    \/ RouterUpdate
    \/ RouterCreate
    \/ RouterDelete
    \/ RoutersReturn
    \/ ListResources
    \/ ResourceKeep
    \/ ResourceUpdate
    \/ ResourceCreate
    \/ ResourceDelete
    \/ ResourcesReturn
    \/ RefreshNetwork

Spec == Init /\ [][Next]_vars

\* Another actor on the same remote: between the run's list call and its
\* update or delete of a listed record, the record is deleted.  The module
\* holds no lock and re-reads nothing (sync_routers / sync_resources list
\* once, then write), so the write meets a record that is gone.
ExternalDelete ==
    /\ pc \in {"sync_routers", "sync_resources"}
    /\ pos <= Len(plan)
    /\ plan[pos].kind \in {"update", "delete"}
    /\ IF pc = "sync_routers"
       THEN /\ HasId(routers, plan[pos].id)
            /\ routers' = RemoveId(routers, plan[pos].id)
            /\ UNCHANGED resources
       ELSE /\ HasId(resources, plan[pos].id)
            /\ resources' = RemoveId(resources, plan[pos].id)
            /\ UNCHANGED routers
    /\ UNCHANGED <<net, nextId, params, pc, current_network_id, network_changed,
                   plan, pos, final, chg, result, calls, runs, start, prev,
                   module, entities, dns_settings, existing_entity>>

NextInterfered ==
    \/ Next
    \/ ExternalDelete

\* netbird_network running against a remote that another actor also changes
Interfered == Init /\ [][NextInterfered]_vars

\* netbird_network as the interpreter runs it: run_module is sequential code,
\* every loop is a `for` over a finite dict and every collaborator call
\* returns or raises (urlopen is given a timeout), so a step that can be
\* taken is taken
\* one run of run_module: Next without the repetition of the task
NextOnce ==
    \/ (pc = "idle" /\ module = "netbird_network" /\ \E p \in Params : StartRun(p))
    \/ GetNetwork
    \/ FindNetworkByName
    \/ DeleteNetwork
    \/ UpdateNetwork
    \/ CreateNetwork
    \/ ListRouters
    \/ RouterKeep
    \/ RouterUpdate
    \/ RouterCreate
    \/ RouterDelete
    \/ RoutersReturn
    \/ ListResources
    \/ ResourceKeep
    \/ ResourceUpdate
    \/ ResourceCreate
    \/ ResourceDelete
    \/ ResourcesReturn
    \/ RefreshNetwork

\* the remotes a terminating run is checked from: no network, the network
\* with two routers and two resources, and the synced one
TerminationRemotes ==
    {rem \in Remotes : rem.net = NoNet \/ Len(rem.routers) = 2}
    \cup {SyncedRemote}

FairSpec ==
    InitFrom(TerminationRemotes) /\ [][NextOnce]_vars /\ WF_vars(NextOnce)

\* ========================================================================
\* The single-entity modules: netbird_group, netbird_policy,
\* netbird_posture_check, netbird_setup_key, netbird_route, netbird_dns,
\* netbird_user, netbird_token, netbird_peer, netbird_account, netbird_info
\* ========================================================================
\* Every run_module has one shape: look the entity up (one read call), decide
\* from state / existence / needs_update, then issue at most one mutating
\* call, which sits inside `if not module.check_mode:` while changed = True
\* is set outside it.

\* an optional bool parameter: None, or a value
NoneB == [given |-> FALSE, val |-> FALSE]

SomeB(b) == [given |-> TRUE, val |-> b]

\* d.get(k) for a string-valued field: a missing key reads as None
GetOrNone(v) == IF v = Absent THEN None ELSE v

\* `if existing_<entity>:`
Exists(e) == e.id # None

\* the id the remote gives to the n-th entity it creates
IdName(n) ==
    CASE n = 1 -> "e1" [] n = 2 -> "e2" [] n = 3 -> "e3" [] n = 4 -> "e4"
      [] n = 5 -> "e5" [] n = 6 -> "e6" [] OTHER -> "e7"

\* `for e in listing: if <match>: return e` and `return None` after the
\* loop; hits are the positions of the listing that match
FirstMatch(coll, hits) ==
    IF hits # {}
    THEN coll[CHOOSE i \in hits : \A j \in hits : i <= j]
    ELSE NoEntity

\* variables of netbird_network, untouched by the single-entity modules
networkVars == <<net, routers, resources, current_network_id, network_changed,
                 plan, pos, final, chg>>

\* result = dict(changed=False, <entity>={})
EntityResult ==
    [failed |-> FALSE, changed |-> FALSE, entity |-> NoEntity,
     msg |-> "", status_code |-> 0]

\* module.fail_json(msg=..., status_code=...)
EntityFailResult(msg, status) ==
    [EntityResult EXCEPT !.failed = TRUE, !.msg = msg, !.status_code = status]

\* result['msg'] of a deletion
DeletedMsg ==
    CASE module = "netbird_group" -> "Group deleted successfully"
      [] module = "netbird_policy" -> "Policy deleted successfully"
      [] module = "netbird_posture_check" -> "Posture check deleted successfully"
      [] module = "netbird_setup_key" -> "Setup key deleted successfully"
      [] module = "netbird_route" -> "Route deleted successfully"
      [] module = "netbird_dns" -> "Nameserver group deleted successfully"
      [] module = "netbird_user" -> "User deleted successfully"
      [] module = "netbird_token" -> "Token deleted successfully"
      [] module = "netbird_peer" -> "Peer deleted successfully"
      [] OTHER -> "Account deleted successfully"

\* locals of a fresh run of a single-entity module
ResetEntityRun ==
    /\ pc' = "find"
    /\ existing_entity' = NoEntity
    /\ result' = EntityResult
    /\ calls' = <<>>
    /\ start' = [entities |-> entities, dns_settings |-> dns_settings]
    /\ UNCHANGED <<networkVars, nextId, entities, dns_settings, module>>

\* a first run with parameters p
StartEntityRun(p) ==
    /\ params' = p
    /\ runs' = 1
    /\ prev' = NoPrev
    /\ ResetEntityRun

\* the same task is run again, this time not in check mode
RerunEntity ==
    /\ pc = "done"
    /\ module # "netbird_network"
    /\ runs < MaxRuns
    /\ ~result.failed
    /\ params' = [params EXCEPT !.check_mode = FALSE]
    /\ runs' = runs + 1
    /\ prev' = [valid |-> TRUE, check_mode |-> params.check_mode,
                changed |-> result.changed,
                routers_changed |-> FALSE, resources_changed |-> FALSE]
    /\ ResetEntityRun

\* except NetBirdAPIError as e: module.fail_json(...)
EntityFail(op, id, status) ==
    /\ \E f \in RequestFailures :
          /\ RequestError(f).status_code = status
          /\ result' = EntityFailResult(RequestError(f).message, status)
    /\ calls' = Append(calls, Call(op, id, FALSE))
    /\ pc' = "done"
    /\ UNCHANGED <<networkVars, runVars, nextId, entityVars>>

\* EntityDecide with every `if not module.check_mode:` guard dropped
EntityDecide_IgnoresCheckMode(found, log, needs_update, create_error) ==
    /\ calls' = log
    /\ existing_entity' = found
    /\ UNCHANGED <<networkVars, runVars, nextId, entities, dns_settings>>
    /\ IF params.state = "absent"
       THEN IF Exists(found)
            THEN /\ pc' = "delete"
                 /\ result' = result
            ELSE /\ pc' = "done"
                 /\ result' = result
       ELSE IF Exists(found)
       THEN IF needs_update
            THEN /\ pc' = "update"
                 /\ result' = result
            ELSE /\ pc' = "done"
                 /\ result' = [result EXCEPT !.entity = found]
       ELSE IF create_error # ""
            THEN /\ pc' = "done"
                 /\ result' = EntityFailResult(create_error, 0)
            ELSE /\ pc' = "create"
                 /\ result' = result

\* run_module from the lookup's outcome to the mutating call, if any
EntityDecide(found, log, needs_update, create_error) ==
    /\ calls' = log
    /\ existing_entity' = found
    /\ UNCHANGED <<networkVars, runVars, nextId, entities, dns_settings>>
    /\ IF params.state = "absent"
       THEN IF Exists(found)
            THEN IF params.check_mode
                 THEN /\ pc' = "done"
                      /\ result' = [result EXCEPT !.changed = TRUE,
                                                  !.msg = DeletedMsg]
                 ELSE /\ pc' = "delete"
                      /\ result' = result
            ELSE /\ pc' = "done"
                 /\ result' = result
       ELSE IF Exists(found)
       THEN IF needs_update
            THEN IF params.check_mode
                 THEN /\ pc' = "done"
                      /\ result' = [result EXCEPT !.changed = TRUE,
                                                  !.entity = found]
                 ELSE /\ pc' = "update"
                      /\ result' = result
            ELSE /\ pc' = "done"
                 /\ result' = [result EXCEPT !.entity = found]
       ELSE IF create_error # ""
            THEN /\ pc' = "done"
                 /\ result' = EntityFailResult(create_error, 0)
            ELSE IF params.check_mode
                 THEN /\ pc' = "done"
                      /\ result' = [result EXCEPT !.changed = TRUE]
                 ELSE /\ pc' = "create"
                      /\ result' = result

\* the record the remote answers a get by id with, None on a 404
GetEntity(id) ==
    IF \E i \in 1..Len(entities) : entities[i].id = id
    THEN entities[CHOOSE i \in 1..Len(entities) : entities[i].id = id]
    ELSE NoEntity

\* EntityFind with `except NetBirdAPIError: pass` at the lookup by id: any
\* failure of the get is taken for "no such entity"
EntityFind_CatchesAll(get_op, id, list_op, listed, found, needs_update, create_error) ==
    IF TruthyS(id)
    THEN \/ EntityDecide(found, Append(calls, Call(get_op, id, Exists(found))),
                         needs_update, create_error)
         \/ EntityDecide(NoEntity, Append(calls, Call(get_op, id, FALSE)),
                         FALSE, create_error)
    ELSE IF listed
    THEN \/ EntityDecide(found, Append(calls, Call(list_op, None, TRUE)),
                         needs_update, create_error)
         \/ \E st \in FailStatus : EntityFail(list_op, None, st)
    ELSE EntityDecide(found, calls, needs_update, create_error)

\* the lookup of existing_<entity> and the state handling that follows it:
\*   if <id>: existing, _ = api.get_<entity>(id), a 404 meaning "no such entity"
\*   elif <key>: existing = find_<entity>_by_<key>(api, key), which lists
\*   else: no lookup
\* found is the record the lookup answers with
EntityFind(get_op, id, list_op, listed, found, needs_update, create_error) ==
    IF TruthyS(id)
    THEN \/ EntityDecide(found, Append(calls, Call(get_op, id, Exists(found))),
                         needs_update, create_error)
         \/ \E st \in FailStatus : EntityFail(get_op, id, st)
    ELSE IF listed
    THEN \/ EntityDecide(found, Append(calls, Call(list_op, None, TRUE)),
                         needs_update, create_error)
         \/ \E st \in FailStatus : EntityFail(list_op, None, st)
    ELSE EntityDecide(found, calls, needs_update, create_error)

\* api.delete_<entity>(existing['id'])
EntityDelete(op) ==
    /\ pc = "delete"
    /\ \/ /\ HasId(entities, existing_entity.id)
          /\ entities' = RemoveId(entities, existing_entity.id)
          /\ calls' = Append(calls, Call(op, existing_entity.id, TRUE))
          /\ result' = [result EXCEPT !.changed = TRUE, !.msg = DeletedMsg]
          /\ pc' = "done"
          /\ UNCHANGED <<networkVars, runVars, nextId, dns_settings, existing_entity>>
       \/ \E st \in FailStatus : EntityFail(op, existing_entity.id, st)

\* entity, _ = api.update_<entity>(existing['id'], ...): the remote keeps the
\* fields the PUT sends and answers with the stored record
EntityUpdate(op, updated) ==
    /\ pc = "update"
    /\ \/ /\ HasId(entities, existing_entity.id)
          /\ entities' = [entities EXCEPT
                             ![IndexOfId(entities, existing_entity.id)] = updated]
          /\ result' = [result EXCEPT !.changed = TRUE, !.entity = updated]
          /\ calls' = Append(calls, Call(op, existing_entity.id, TRUE))
          /\ pc' = "done"
          /\ UNCHANGED <<networkVars, runVars, nextId, dns_settings, existing_entity>>
       \/ \E st \in FailStatus : EntityFail(op, existing_entity.id, st)

\* entity, _ = api.create_<entity>(...): the remote stores the payload under
\* a fresh id and answers with the stored record
EntityCreate(op, created) ==
    /\ pc = "create"
    /\ \/ /\ entities' = Append(entities, created)
          /\ result' = [result EXCEPT !.changed = TRUE, !.entity = created]
          /\ nextId' = nextId + 1
          /\ calls' = Append(calls, Call(op, None, TRUE))
          /\ pc' = "done"
          /\ UNCHANGED <<networkVars, runVars, dns_settings, existing_entity>>
       \/ \E st \in FailStatus : EntityFail(op, None, st)

\* ------------------------------------------------------------------------
\* netbird_group
\* ------------------------------------------------------------------------
group_needs_update(current, desired) ==
    \/ desired.name # None /\ current.name # desired.name
    \/ desired.peers # NoneL /\ ToSet(current.peers) # ToSet(desired.peers)

\* existing_group: api.get_group(group_id) if group_id, else
\* find_group_by_name(api, name) if name; then the handling of state
FindGroup ==
    /\ module = "netbird_group"
    /\ pc = "find"
    /\ LET found ==
               IF TruthyS(params.group_id) THEN GetEntity(params.group_id)
               ELSE IF TruthyS(params.name)
               THEN FirstMatch(entities, {i \in 1..Len(entities) :
                                             entities[i].name = params.name})
               ELSE NoEntity
       IN EntityFind("get_group", params.group_id,
                     "list_groups", TruthyS(params.name), found,
                     Exists(found) /\ group_needs_update(found, params),
                     IF TruthyS(params.name) THEN ""
                     ELSE "name is required when creating a new group")

DeleteGroup == module = "netbird_group" /\ EntityDelete("delete_group")

\* api.update_group(existing_group['id'], name=name, peers=peers): only the
\* arguments that are not None are sent; resources is left out (None)
UpdateGroup ==
    /\ module = "netbird_group"
    /\ LET cur == GetEntity(existing_entity.id)
       IN EntityUpdate("update_group",
              [id    |-> cur.id,
               name  |-> IF params.name # None THEN params.name ELSE cur.name,
               peers |-> IF params.peers # NoneL THEN params.peers ELSE cur.peers])

\* api.create_group(name=name, peers=peers): peers or []
CreateGroup ==
    /\ module = "netbird_group"
    /\ EntityCreate("create_group",
           [id |-> IdName(nextId), name |-> params.name,
            peers |-> GetListOrEmpty(params.peers)])

\* ------------------------------------------------------------------------
\* netbird_policy
\* ------------------------------------------------------------------------
\* policy_needs_update that compares the rules given with the current rules
policy_needs_update_ComparesRules(current, p) ==
    \/ p.name # None /\ current.name # p.name
    \/ p.description # None /\ current.description # p.description
    \/ current.enabled # p.enabled
    \/ p.rules.given /\ current.rules # p.rules.list

policy_needs_update(current, p) ==
    \/ p.name # None /\ current.name # p.name
    \/ p.description # None /\ current.description # p.description
    \/ current.enabled # p.enabled
    \/ p.rules.given

FindPolicy ==
    /\ module = "netbird_policy"
    /\ pc = "find"
    /\ LET found ==
               IF TruthyS(params.policy_id) THEN GetEntity(params.policy_id)
               ELSE IF TruthyS(params.name)
               THEN FirstMatch(entities, {i \in 1..Len(entities) :
                                             entities[i].name = params.name})
               ELSE NoEntity
       IN EntityFind("get_policy", params.policy_id,
                     "list_policies", TruthyS(params.name), found,
                     Exists(found) /\ policy_needs_update(found, params),
                     IF TruthyS(params.name) THEN ""
                     ELSE "name is required when creating a new policy")

DeletePolicy == module = "netbird_policy" /\ EntityDelete("delete_policy")

\* api.update_policy(id, name=, enabled=, description=, rules=)
UpdatePolicy ==
    /\ module = "netbird_policy"
    /\ LET cur == GetEntity(existing_entity.id)
       IN EntityUpdate("update_policy",
              [id          |-> cur.id,
               name        |-> IF params.name # None THEN params.name ELSE cur.name,
               enabled     |-> params.enabled,
               description |-> IF params.description # None THEN params.description
                               ELSE cur.description,
               rules       |-> IF params.rules.given THEN params.rules.list
                               ELSE cur.rules])

\* api.create_policy(name=, enabled=, description=, rules=rules or [])
CreatePolicy ==
    /\ module = "netbird_policy"
    /\ EntityCreate("create_policy",
           [id |-> IdName(nextId), name |-> params.name, enabled |-> params.enabled,
            description |-> params.description, rules |-> params.rules.list])

\* ------------------------------------------------------------------------
\* netbird_posture_check
\* ------------------------------------------------------------------------
\* checks is a dict or None; "{}" stands for the empty dict
posture_check_needs_update(current, p) ==
    \/ p.name # None /\ current.name # p.name
    \/ p.description # None /\ current.description # p.description
    \/ p.checks # None

FindPostureCheck ==
    /\ module = "netbird_posture_check"
    /\ pc = "find"
    /\ LET found ==
               IF TruthyS(params.check_id) THEN GetEntity(params.check_id)
               ELSE IF TruthyS(params.name)
               THEN FirstMatch(entities, {i \in 1..Len(entities) :
                                             entities[i].name = params.name})
               ELSE NoEntity
       IN EntityFind("get_posture_check", params.check_id,
                     "list_posture_checks", TruthyS(params.name), found,
                     Exists(found) /\ posture_check_needs_update(found, params),
                     IF TruthyS(params.name) THEN ""
                     ELSE "name is required when creating a new posture check")

DeletePostureCheck ==
    module = "netbird_posture_check" /\ EntityDelete("delete_posture_check")

\* api.update_posture_check(id, name=, description=, checks=)
UpdatePostureCheck ==
    /\ module = "netbird_posture_check"
    /\ LET cur == GetEntity(existing_entity.id)
       IN EntityUpdate("update_posture_check",
              [id          |-> cur.id,
               name        |-> IF params.name # None THEN params.name ELSE cur.name,
               description |-> IF params.description # None THEN params.description
                               ELSE cur.description,
               checks      |-> IF params.checks # None THEN params.checks
                               ELSE cur.checks])

\* api.create_posture_check(name=, description=, checks=checks or {})
CreatePostureCheck ==
    /\ module = "netbird_posture_check"
    /\ EntityCreate("create_posture_check",
           [id |-> IdName(nextId), name |-> params.name,
            description |-> params.description,
            checks |-> IF params.checks \in {None, "{}"} THEN "{}"
                       ELSE params.checks])

\* ------------------------------------------------------------------------
\* netbird_setup_key
\* ------------------------------------------------------------------------
setup_key_needs_update(current, p) ==
    \/ p.name # None /\ current.name # p.name
    \/ current.revoked # p.revoked
    \/ p.auto_groups # NoneL /\ ToSet(current.auto_groups) # ToSet(p.auto_groups)

FindSetupKey ==
    /\ module = "netbird_setup_key"
    /\ pc = "find"
    /\ LET found ==
               IF TruthyS(params.key_id) THEN GetEntity(params.key_id)
               ELSE IF TruthyS(params.name)
               THEN FirstMatch(entities, {i \in 1..Len(entities) :
                                             entities[i].name = params.name})
               ELSE NoEntity
       IN EntityFind("get_setup_key", params.key_id,
                     "list_setup_keys", TruthyS(params.name), found,
                     Exists(found) /\ setup_key_needs_update(found, params),
                     IF TruthyS(params.name) THEN ""
                     ELSE "name is required when creating a new setup key")

DeleteSetupKey == module = "netbird_setup_key" /\ EntityDelete("delete_setup_key")

\* api.update_setup_key(id, name=, revoked=, auto_groups=): the key type is
\* not sent
UpdateSetupKey ==
    /\ module = "netbird_setup_key"
    /\ LET cur == GetEntity(existing_entity.id)
       IN EntityUpdate("update_setup_key",
              [id          |-> cur.id,
               name        |-> IF params.name # None THEN params.name ELSE cur.name,
               type        |-> cur.type,
               revoked     |-> params.revoked,
               auto_groups |-> IF params.auto_groups # NoneL THEN params.auto_groups
                               ELSE cur.auto_groups])

\* api.create_setup_key(name=, key_type=, ..., auto_groups=auto_groups or [])
CreateSetupKey ==
    /\ module = "netbird_setup_key"
    /\ EntityCreate("create_setup_key",
           [id |-> IdName(nextId), name |-> params.name, type |-> params.key_type,
            revoked |-> params.revoked,
            auto_groups |-> GetListOrEmpty(params.auto_groups)])

\* ------------------------------------------------------------------------
\* netbird_route
\* ------------------------------------------------------------------------
route_needs_update(current, p) ==
    \/ p.network # None /\ current.network # p.network
    \/ current.metric # p.metric
    \/ p.peer_id # None /\ GetOrNone(current.peer) # p.peer_id
    \/ p.peer_groups # NoneL
          /\ ToSet(GetListOrEmpty(current.peer_groups)) # ToSet(p.peer_groups)
    \/ p.groups # NoneL
          /\ ToSet(GetListOrEmpty(current.groups)) # ToSet(p.groups)

\* existing_route: api.get_route(route_id) if route_id, else
\* find_route_by_network_id(api, network_id) if network_id
FindRoute ==
    /\ module = "netbird_route"
    /\ pc = "find"
    /\ LET found ==
               IF TruthyS(params.route_id) THEN GetEntity(params.route_id)
               ELSE IF TruthyS(params.network_id)
               THEN FirstMatch(entities,
                               {i \in 1..Len(entities) :
                                   entities[i].network_id = params.network_id})
               ELSE NoEntity
       IN EntityFind("get_route", params.route_id,
                     "list_routes", TruthyS(params.network_id), found,
                     Exists(found) /\ route_needs_update(found, params),
                     IF ~TruthyS(params.network_id)
                     THEN "network_id is required when creating a new route"
                     ELSE IF ~TruthyS(params.network)
                     THEN "network is required when creating a new route"
                     ELSE IF ~TruthyS(params.peer_id) /\ ~TruthyL(params.peer_groups)
                     THEN "Either peer_id or peer_groups is required when creating a new route"
                     ELSE "")

DeleteRoute == module = "netbird_route" /\ EntityDelete("delete_route")

\* api.update_route(id, network_id=, network=, peer=peer_id, peer_groups=,
\* metric=, ...)
UpdateRoute ==
    /\ module = "netbird_route"
    /\ LET cur == GetEntity(existing_entity.id)
       IN EntityUpdate("update_route",
              [id          |-> cur.id,
               network_id  |-> IF params.network_id # None THEN params.network_id
                               ELSE cur.network_id,
               network     |-> IF params.network # None THEN params.network
                               ELSE cur.network,
               metric      |-> params.metric,
               peer        |-> IF params.peer_id # None THEN params.peer_id
                               ELSE cur.peer,
               peer_groups |-> IF params.peer_groups # NoneL THEN params.peer_groups
                               ELSE cur.peer_groups,
               groups      |-> IF params.groups # NoneL THEN params.groups
                               ELSE cur.groups])

\* api.create_route(...): peer and peer_groups are sent only when truthy
CreateRoute ==
    /\ module = "netbird_route"
    /\ EntityCreate("create_route",
           [id          |-> IdName(nextId),
            network_id  |-> params.network_id,
            network     |-> params.network,
            metric      |-> params.metric,
            peer        |-> IF TruthyS(params.peer_id) THEN params.peer_id
                            ELSE Absent,
            peer_groups |-> IF TruthyL(params.peer_groups) THEN params.peer_groups
                            ELSE AbsentL,
            groups      |-> GetListOrEmpty(params.groups)])

\* ------------------------------------------------------------------------
\* netbird_dns
\* ------------------------------------------------------------------------
nsgroup_needs_update(current, p) ==
    \/ p.name # None /\ current.name # p.name
    \/ current.primary # p.primary
    \/ p.nameservers.given
    \/ p.groups # NoneL /\ ToSet(current.groups) # ToSet(p.groups)
    \/ p.domains # NoneL /\ ToSet(current.domains) # ToSet(p.domains)

\* current_settings, _ = api.get_dns_settings() and the decision made on it
GetDnsSettings ==
    /\ module = "netbird_dns"
    /\ pc = "find"
    /\ params.resource_type = "settings"
    /\ \/ /\ calls' = Append(calls, Call("get_dns_settings", None, TRUE))
          /\ UNCHANGED <<networkVars, runVars, nextId, entityVars>>
          /\ IF params.state = "present"
             THEN IF /\ params.disabled_management_groups.given
                     /\ ToSet(dns_settings.disabled_management_groups)
                          # ToSet(params.disabled_management_groups.list)
                  THEN IF params.check_mode
                       THEN /\ pc' = "done"
                            /\ result' = [result EXCEPT !.changed = TRUE,
                                                        !.entity = dns_settings]
                       ELSE /\ pc' = "update_settings"
                            /\ result' = result
                  ELSE /\ pc' = "done"
                       /\ result' = [result EXCEPT !.entity = dns_settings]
             ELSE /\ pc' = "done"
                  /\ result' = result
       \/ \E st \in FailStatus : EntityFail("get_dns_settings", None, st)

\* settings, _ = api.update_dns_settings(disabled_management_groups=...)
UpdateDnsSettings ==
    /\ module = "netbird_dns"
    /\ pc = "update_settings"
    /\ \/ /\ dns_settings' = [dns_settings EXCEPT !.disabled_management_groups =
                                  params.disabled_management_groups.list]
          /\ result' = [result EXCEPT !.changed = TRUE, !.entity = dns_settings']
          /\ calls' = Append(calls, Call("update_dns_settings", None, TRUE))
          /\ pc' = "done"
          /\ UNCHANGED <<networkVars, runVars, nextId, entities, existing_entity>>
       \/ \E st \in FailStatus : EntityFail("update_dns_settings", None, st)

FindNameserverGroup ==
    /\ module = "netbird_dns"
    /\ pc = "find"
    /\ params.resource_type = "nameserver_group"
    /\ LET found ==
               IF TruthyS(params.nsgroup_id) THEN GetEntity(params.nsgroup_id)
               ELSE IF TruthyS(params.name)
               THEN FirstMatch(entities, {i \in 1..Len(entities) :
                                             entities[i].name = params.name})
               ELSE NoEntity
       IN EntityFind("get_nameserver_group", params.nsgroup_id,
                     "list_nameserver_groups", TruthyS(params.name), found,
                     Exists(found) /\ nsgroup_needs_update(found, params),
                     IF ~TruthyS(params.name)
                     THEN "name is required when creating a new nameserver group"
                     ELSE IF ~(params.nameservers.given
                               /\ params.nameservers.list # <<>>)
                     THEN "nameservers is required when creating a new nameserver group"
                     ELSE "")

DeleteNameserverGroup ==
    module = "netbird_dns" /\ EntityDelete("delete_nameserver_group")

\* api.update_nameserver_group(id, name=, nameservers=, groups=, primary=, ...)
UpdateNameserverGroup ==
    /\ module = "netbird_dns"
    /\ LET cur == GetEntity(existing_entity.id)
       IN EntityUpdate("update_nameserver_group",
              [id          |-> cur.id,
               name        |-> IF params.name # None THEN params.name ELSE cur.name,
               nameservers |-> IF params.nameservers.given
                               THEN params.nameservers.list ELSE cur.nameservers,
               groups      |-> IF params.groups # NoneL THEN params.groups
                               ELSE cur.groups,
               domains     |-> IF params.domains # NoneL THEN params.domains
                               ELSE cur.domains,
               primary     |-> params.primary])

\* api.create_nameserver_group(name=, nameservers=, groups=groups or [], ...)
CreateNameserverGroup ==
    /\ module = "netbird_dns"
    /\ EntityCreate("create_nameserver_group",
           [id |-> IdName(nextId), name |-> params.name,
            nameservers |-> params.nameservers.list,
            groups |-> GetListOrEmpty(params.groups),
            domains |-> GetListOrEmpty(params.domains),
            primary |-> params.primary])

\* ------------------------------------------------------------------------
\* netbird_user
\* ------------------------------------------------------------------------
user_needs_update(current, desired) ==
    \/ desired.role # None /\ GetOrNone(current.role) # desired.role
    \/ desired.is_blocked.given /\ current.is_blocked # desired.is_blocked
    \/ desired.auto_groups # NoneL
          /\ ToSet(current.auto_groups) # ToSet(desired.auto_groups)

\* ResendUserInvitation with api.resend_user_invitation(user_id) outside
\* `if not module.check_mode:`
ResendUserInvitation_IgnoresCheckMode ==
    /\ module = "netbird_user"
    /\ pc = "find"
    /\ params.resend_invitation
    /\ TruthyS(params.user_id)
    /\ \/ /\ HasId(entities, params.user_id)
          /\ calls' = Append(calls, Call("resend_user_invitation",
                                         params.user_id, TRUE))
          /\ result' = [result EXCEPT !.changed = TRUE,
                                      !.msg = "Invitation resent successfully"]
          /\ pc' = "done"
          /\ UNCHANGED <<networkVars, runVars, nextId, entityVars>>
       \/ /\ ~HasId(entities, params.user_id)
          /\ EntityFail("resend_user_invitation", params.user_id, 404)
       \/ \E st \in FailStatus :
             EntityFail("resend_user_invitation", params.user_id, st)

\* if resend_invitation and user_id: ... module.exit_json(**result)
ResendUserInvitation ==
    /\ module = "netbird_user"
    /\ pc = "find"
    /\ params.resend_invitation
    /\ TruthyS(params.user_id)
    /\ IF params.check_mode
       THEN /\ result' = [result EXCEPT !.changed = TRUE,
                                        !.msg = "Invitation resent successfully"]
            /\ pc' = "done"
            /\ UNCHANGED <<networkVars, runVars, nextId, entityVars, calls>>
       ELSE \/ /\ HasId(entities, params.user_id)
               /\ calls' = Append(calls, Call("resend_user_invitation",
                                              params.user_id, TRUE))
               /\ result' = [result EXCEPT !.changed = TRUE,
                                           !.msg = "Invitation resent successfully"]
               /\ pc' = "done"
               /\ UNCHANGED <<networkVars, runVars, nextId, entityVars>>
            \/ /\ ~HasId(entities, params.user_id)
               /\ EntityFail("resend_user_invitation", params.user_id, 404)
            \/ \E st \in FailStatus :
                  EntityFail("resend_user_invitation", params.user_id, st)

\* existing_user: api.get_user(user_id) if user_id (get_user lists the users
\* and answers (None, 404) when the id is not among them), else
\* find_user_by_email(api, email) if email, else find_user_by_name(api, name)
\* if name and is_service_user; every one of them lists the users
FindUser ==
    /\ module = "netbird_user"
    /\ pc = "find"
    /\ ~(params.resend_invitation /\ TruthyS(params.user_id))
    /\ LET by_name == TruthyS(params.name) /\ params.is_service_user
           found ==
               IF TruthyS(params.user_id)
               THEN FirstMatch(entities, {i \in 1..Len(entities) :
                                             entities[i].id = params.user_id})
               ELSE IF TruthyS(params.email)
               THEN FirstMatch(entities, {i \in 1..Len(entities) :
                                             entities[i].email = params.email})
               ELSE IF by_name
               THEN FirstMatch(entities, {i \in 1..Len(entities) :
                                             /\ entities[i].is_service_user
                                             /\ entities[i].name = params.name})
               ELSE NoEntity
       IN EntityFind("list_users", None, "list_users",
                     TruthyS(params.user_id) \/ TruthyS(params.email) \/ by_name,
                     found,
                     Exists(found) /\ user_needs_update(found, params),
                     IF ~params.is_service_user /\ ~TruthyS(params.email)
                     THEN "email is required when creating a regular user"
                     ELSE "")

DeleteUser == module = "netbird_user" /\ EntityDelete("delete_user")

\* api.update_user(id, role=, auto_groups=, is_blocked=)
UpdateUser ==
    /\ module = "netbird_user"
    /\ LET cur == GetEntity(existing_entity.id)
       IN EntityUpdate("update_user",
              [id              |-> cur.id,
               email           |-> cur.email,
               name            |-> cur.name,
               is_service_user |-> cur.is_service_user,
               role            |-> IF params.role # None THEN params.role
                                   ELSE cur.role,
               auto_groups     |-> IF params.auto_groups # NoneL
                                   THEN params.auto_groups ELSE cur.auto_groups,
               is_blocked      |-> IF params.is_blocked.given THEN params.is_blocked
                                   ELSE cur.is_blocked])

\* api.create_user(email=, name=, role=, auto_groups=, is_service_user=):
\* email and name are sent only when truthy, is_blocked is never sent
CreateUser ==
    /\ module = "netbird_user"
    /\ EntityCreate("create_user",
           [id              |-> IdName(nextId),
            role            |-> params.role,
            auto_groups     |-> GetListOrEmpty(params.auto_groups),
            is_service_user |-> params.is_service_user,
            email           |-> IF TruthyS(params.email) THEN params.email
                                ELSE Absent,
            name            |-> IF TruthyS(params.name) THEN params.name
                                ELSE Absent,
            is_blocked      |-> NoneB])

\* ------------------------------------------------------------------------
\* netbird_token
\* ------------------------------------------------------------------------
\* state == 'absent' with token_id: api.delete_token(user_id, token_id),
\* no lookup before it
DeleteTokenById ==
    /\ module = "netbird_token"
    /\ pc = "find"
    /\ params.state = "absent"
    /\ TruthyS(params.token_id)
    /\ IF params.check_mode
       THEN /\ result' = [result EXCEPT !.changed = TRUE, !.msg = DeletedMsg]
            /\ pc' = "done"
            /\ UNCHANGED <<networkVars, runVars, nextId, entityVars, calls>>
       ELSE \/ /\ HasId(entities, params.token_id)
               /\ entities' = RemoveId(entities, params.token_id)
               /\ calls' = Append(calls, Call("delete_token", params.token_id, TRUE))
               /\ result' = [result EXCEPT !.changed = TRUE, !.msg = DeletedMsg]
               /\ pc' = "done"
               /\ UNCHANGED <<networkVars, runVars, nextId, dns_settings,
                              existing_entity>>
            \/ /\ ~HasId(entities, params.token_id)
               /\ EntityFail("delete_token", params.token_id, 404)
            \/ \E st \in FailStatus : EntityFail("delete_token", params.token_id, st)

\* existing_token = find_token_by_name(api, user_id, name) and the state
\* handling after it: an existing token is returned as it is, tokens are
\* never updated
FindTokenByName ==
    /\ module = "netbird_token"
    /\ pc = "find"
    /\ params.state = "present" \/ ~TruthyS(params.token_id)
    /\ LET listed == params.state = "present" \/ TruthyS(params.name)
           found == IF listed
                    THEN FirstMatch(entities, {i \in 1..Len(entities) :
                                                  entities[i].name = params.name})
                    ELSE NoEntity
       IN \/ /\ calls' = IF listed
                         THEN Append(calls, Call("list_tokens", None, TRUE))
                         ELSE calls
             /\ existing_entity' = found
             /\ UNCHANGED <<networkVars, runVars, nextId, entities, dns_settings>>
             /\ IF params.state = "absent"
                THEN IF Exists(found)
                     THEN IF params.check_mode
                          THEN /\ pc' = "done"
                               /\ result' = [result EXCEPT !.changed = TRUE,
                                                           !.msg = DeletedMsg]
                          ELSE /\ pc' = "delete"
                               /\ result' = result
                     ELSE /\ pc' = "done"
                          /\ result' = result
                ELSE IF Exists(found)
                THEN /\ pc' = "done"
                     /\ result' = [result EXCEPT !.entity = found,
                                                 !.msg = "Token already exists"]
                ELSE IF params.check_mode
                     THEN /\ pc' = "done"
                          /\ result' = [result EXCEPT !.changed = TRUE]
                     ELSE /\ pc' = "create"
                          /\ result' = result
          \/ /\ listed
             /\ \E st \in FailStatus : EntityFail("list_tokens", None, st)

DeleteToken == module = "netbird_token" /\ EntityDelete("delete_token")

\* api.create_token(user_id, name=name, expires_in=expires_in)
CreateToken ==
    /\ module = "netbird_token"
    /\ EntityCreate("create_token", [id |-> IdName(nextId), name |-> params.name])

\* ------------------------------------------------------------------------
\* netbird_peer
\* ------------------------------------------------------------------------
peer_needs_update(current, p) ==
    \/ p.name # None /\ current.name # p.name
    \/ p.ssh_enabled.given /\ current.ssh_enabled # p.ssh_enabled

\* existing_peer, _ = api.get_peer(peer_id); a 404 ends the run, unchanged
\* for state=absent and failed for state=present
FindPeer ==
    /\ module = "netbird_peer"
    /\ pc = "find"
    /\ \/ /\ HasId(entities, params.peer_id)
          /\ EntityDecide(GetEntity(params.peer_id),
                          Append(calls, Call("get_peer", params.peer_id, TRUE)),
                          peer_needs_update(GetEntity(params.peer_id), params),
                          "")
       \/ /\ ~HasId(entities, params.peer_id)
          /\ calls' = Append(calls, Call("get_peer", params.peer_id, FALSE))
          /\ result' = IF params.state = "absent" THEN result
                       ELSE EntityFailResult("Peer not found", 0)
          /\ pc' = "done"
          /\ UNCHANGED <<networkVars, runVars, nextId, entityVars>>
       \/ \E st \in FailStatus : EntityFail("get_peer", params.peer_id, st)

DeletePeer == module = "netbird_peer" /\ EntityDelete("delete_peer")

\* api.update_peer(peer_id, name=, ssh_enabled=, ...)
UpdatePeer ==
    /\ module = "netbird_peer"
    /\ LET cur == GetEntity(existing_entity.id)
       IN EntityUpdate("update_peer",
              [id          |-> cur.id,
               name        |-> IF params.name # None THEN params.name ELSE cur.name,
               ssh_enabled |-> IF params.ssh_enabled.given THEN params.ssh_enabled
                               ELSE cur.ssh_enabled])

\* ------------------------------------------------------------------------
\* netbird_account
\* ------------------------------------------------------------------------
\* the settings the task names: the parameters that are not None. Of the
\* thirteen settings three are modelled
build_settings_update(p) ==
    [peer_login_expiration_enabled |-> p.peer_login_expiration_enabled,
     dns_domain |-> p.dns_domain,
     jwt_allow_groups |-> p.jwt_allow_groups]

\* `if desired_settings:`
HasSettings(desired) ==
    \/ desired.peer_login_expiration_enabled.given
    \/ desired.dns_domain # None
    \/ desired.jwt_allow_groups # NoneL

\* settings_need_update that skips a setting the account does not have yet
settings_need_update_SkipsAbsent(current_settings, desired_settings) ==
    \/ /\ desired_settings.peer_login_expiration_enabled.given
       /\ current_settings.peer_login_expiration_enabled
            # desired_settings.peer_login_expiration_enabled
    \/ /\ desired_settings.dns_domain # None
       /\ current_settings.dns_domain # Absent
       /\ current_settings.dns_domain # desired_settings.dns_domain
    \/ /\ desired_settings.jwt_allow_groups # NoneL
       /\ current_settings.jwt_allow_groups # desired_settings.jwt_allow_groups

settings_need_update(current_settings, desired_settings) ==
    \/ /\ desired_settings.peer_login_expiration_enabled.given
       /\ current_settings.peer_login_expiration_enabled
            # desired_settings.peer_login_expiration_enabled
    \/ /\ desired_settings.dns_domain # None
       /\ GetOrNone(current_settings.dns_domain) # desired_settings.dns_domain
    \/ /\ desired_settings.jwt_allow_groups # NoneL
       /\ current_settings.jwt_allow_groups # desired_settings.jwt_allow_groups

\* MergeSettings as {**desired_settings}: only the named settings are sent
MergeSettings_DesiredOnly(current_settings, desired_settings) ==
    [peer_login_expiration_enabled |->
         desired_settings.peer_login_expiration_enabled,
     dns_domain |->
         IF desired_settings.dns_domain # None
         THEN desired_settings.dns_domain
         ELSE Absent,
     jwt_allow_groups |->
         IF desired_settings.jwt_allow_groups # NoneL
         THEN desired_settings.jwt_allow_groups
         ELSE AbsentL,
     jwt_groups_claim_name |-> Absent]

\* {**current_settings, **desired_settings}; jwt_groups_claim_name stands
\* for a setting the task does not name
MergeSettings(current_settings, desired_settings) ==
    [peer_login_expiration_enabled |->
         IF desired_settings.peer_login_expiration_enabled.given
         THEN desired_settings.peer_login_expiration_enabled
         ELSE current_settings.peer_login_expiration_enabled,
     dns_domain |->
         IF desired_settings.dns_domain # None
         THEN desired_settings.dns_domain
         ELSE current_settings.dns_domain,
     jwt_allow_groups |->
         IF desired_settings.jwt_allow_groups # NoneL
         THEN desired_settings.jwt_allow_groups
         ELSE current_settings.jwt_allow_groups,
     jwt_groups_claim_name |-> current_settings.jwt_groups_claim_name]

\* accounts, _ = api.list_accounts(), the choice of the account and the
\* decision made on it
ListAccounts ==
    /\ module = "netbird_account"
    /\ pc = "find"
    /\ \/ LET log == Append(calls, Call("list_accounts", None, TRUE))
              account == IF TruthyS(params.account_id)
                         THEN FirstMatch(entities,
                                         {i \in 1..Len(entities) :
                                             entities[i].id = params.account_id})
                         ELSE entities[1]
          IN IF entities = <<>>
             THEN /\ calls' = log
                  /\ result' = EntityFailResult("No accounts found", 0)
                  /\ pc' = "done"
                  /\ UNCHANGED <<networkVars, runVars, nextId, entityVars>>
             ELSE IF ~Exists(account)
             THEN /\ calls' = log
                  /\ result' = EntityFailResult("Account not found", 0)
                  /\ pc' = "done"
                  /\ UNCHANGED <<networkVars, runVars, nextId, entityVars>>
             ELSE EntityDecide(account, log,
                               /\ HasSettings(build_settings_update(params))
                               /\ settings_need_update(account.settings,
                                                       build_settings_update(params)),
                               "")
       \/ \E st \in FailStatus : EntityFail("list_accounts", None, st)

DeleteAccount == module = "netbird_account" /\ EntityDelete("delete_account")

\* update_data = {'settings': {**current_settings, **desired_settings}};
\* api.update_account(account_id, update_data)
UpdateAccount ==
    /\ module = "netbird_account"
    /\ EntityUpdate("update_account",
           [id |-> existing_entity.id,
            settings |-> MergeSettings(existing_entity.settings,
                                       build_settings_update(params))])

\* ------------------------------------------------------------------------
\* netbird_info
\* ------------------------------------------------------------------------
\* the collaborator call a resource maps to; four of the fourteen choices
\* are modelled
InfoCall(resource) ==
    CASE resource = "groups" -> "list_groups"
      [] resource = "policies" -> "list_policies"
      [] resource = "users" -> "list_users"
      [] OTHER -> "get_dns_settings"

\* data, _ = api.<call>(); result['data'] = data
GatherInfo ==
    /\ module = "netbird_info"
    /\ pc = "find"
    /\ \/ /\ calls' = Append(calls, Call(InfoCall(params.resource), None, TRUE))
          /\ result' = [result EXCEPT !.entity =
                           IF params.resource = "dns_settings"
                           THEN [id |-> None, data |-> <<dns_settings>>]
                           ELSE [id |-> None, data |-> entities]]
          /\ pc' = "done"
          /\ UNCHANGED <<networkVars, runVars, nextId, entityVars>>
       \/ \E st \in FailStatus : EntityFail(InfoCall(params.resource), None, st)

\* ------------------------------------------------------------------------
\* Every module
\* ------------------------------------------------------------------------
EntityModules ==
    { "netbird_group", "netbird_policy", "netbird_posture_check",
      "netbird_setup_key", "netbird_route", "netbird_dns", "netbird_user",
      "netbird_token", "netbird_peer", "netbird_account", "netbird_info" }

\* module.params of a task of module m, after the argument spec's defaults
\* and requirements. Parameters that no decision reads stay at their defaults
\* and are left out.
ParamsOf(m) ==
    LET States == {"present", "absent"}
        OptBool == {NoneB, SomeB(TRUE), SomeB(FALSE)}
        \* (id, name) of the entity a task addresses
        Targets ==
            { [id |-> "e1", name |-> None],
              [id |-> None, name |-> "a"],
              [id |-> "e1", name |-> "b"],
              [id |-> None, name |-> "b"],
              [id |-> "", name |-> None] }
        \* peers defaults to []
        GroupParams ==
            { [state |-> s, check_mode |-> c, group_id |-> t.id, name |-> t.name,
               peers |-> l] :
              s \in States, c \in BOOLEAN, t \in Targets,
              l \in {<<>>, <<"p1", "p2">>, <<"p2", "p1">>} }
        \* description defaults to '', enabled to True; rules is None or a list
        PolicyParams ==
            { [state |-> s, check_mode |-> c, policy_id |-> t.id, name |-> t.name,
               description |-> d, enabled |-> e, rules |-> r] :
              s \in States, c \in BOOLEAN, t \in Targets,
              d \in {"", "d"}, e \in BOOLEAN,
              r \in {NoList, [given |-> TRUE, list |-> <<>>],
                     [given |-> TRUE, list |-> <<"r1">>]} }
        PostureCheckParams ==
            { [state |-> s, check_mode |-> c, check_id |-> t.id, name |-> t.name,
               description |-> d, checks |-> k] :
              s \in States, c \in BOOLEAN, t \in Targets,
              d \in {"", "d"}, k \in {None, "{}", "c1"} }
        \* revoked defaults to False, auto_groups to [], key_type to 'one-off'
        SetupKeyParams ==
            { [state |-> s, check_mode |-> c, key_id |-> t.id, name |-> t.name,
               key_type |-> k, revoked |-> r, auto_groups |-> g] :
              s \in States, c \in BOOLEAN, t \in Targets,
              k \in {"one-off", "reusable"}, r \in BOOLEAN,
              g \in {<<>>, <<"g1", "g2">>, <<"g2", "g1">>} }
        \* who routes: nobody named, a peer, or peer groups (mutually exclusive)
        RouteVia ==
            { [peer_id |-> None, peer_groups |-> NoneL],
              [peer_id |-> "P1", peer_groups |-> NoneL],
              [peer_id |-> None, peer_groups |-> <<"g1", "g2">>] }
        \* (route_id, network_id): one of the two is required
        RouteTargets ==
            { [route_id |-> "e1", network_id |-> None],
              [route_id |-> None, network_id |-> "r1"],
              [route_id |-> None, network_id |-> "r2"],
              [route_id |-> "", network_id |-> None] }
        \* metric defaults to 9999, groups to []
        RouteParams ==
            { [state |-> s, check_mode |-> c, route_id |-> t.route_id,
               network_id |-> t.network_id, network |-> n, peer_id |-> v.peer_id,
               peer_groups |-> v.peer_groups, metric |-> x, groups |-> g] :
              s \in States, c \in BOOLEAN, t \in RouteTargets,
              n \in {None, "10.0.0.0/24"}, v \in RouteVia, x \in {9999, 100},
              g \in {<<>>, <<"g2", "g1">>} }
        \* neither nsgroup_id nor name is required; groups and domains
        \* default to [], primary to False
        NsGroupParams ==
            { [state |-> s, check_mode |-> c, resource_type |-> "nameserver_group",
               nsgroup_id |-> t.id, name |-> t.name, nameservers |-> n,
               groups |-> g, domains |-> o, primary |-> y,
               disabled_management_groups |-> NoList] :
              s \in States, c \in BOOLEAN,
              t \in Targets \cup { [id |-> None, name |-> None] },
              n \in {NoList, [given |-> TRUE, list |-> <<>>],
                     [given |-> TRUE, list |-> <<"ns1">>]},
              g \in {<<>>, <<"g1", "g2">>, <<"g2", "g1">>},
              o \in {<<>>, <<"d2", "d1">>}, y \in BOOLEAN }
        DnsSettingsParams ==
            { [state |-> s, check_mode |-> c, resource_type |-> "settings",
               nsgroup_id |-> None, name |-> None, nameservers |-> NoList,
               groups |-> <<>>, domains |-> <<>>, primary |-> FALSE,
               disabled_management_groups |-> d] :
              s \in States, c \in BOOLEAN,
              d \in {NoList, [given |-> TRUE, list |-> <<>>],
                     [given |-> TRUE, list |-> <<"g1", "g2">>],
                     [given |-> TRUE, list |-> <<"g2", "g1">>]} }
        \* (user_id, email, name, is_service_user)
        UserTargets ==
            { [user_id |-> "e1", email |-> None, name |-> None,
               is_service_user |-> FALSE],
              [user_id |-> None, email |-> "a@x", name |-> "a",
               is_service_user |-> FALSE],
              [user_id |-> None, email |-> "b@x", name |-> None,
               is_service_user |-> FALSE],
              [user_id |-> None, email |-> "a@x", name |-> "b",
               is_service_user |-> FALSE],
              [user_id |-> None, email |-> "s@x", name |-> "s",
               is_service_user |-> TRUE],
              [user_id |-> "e2", email |-> "a@x", name |-> None,
               is_service_user |-> FALSE],
              [user_id |-> None, email |-> None, name |-> "s",
               is_service_user |-> TRUE],
              [user_id |-> None, email |-> None, name |-> "s",
               is_service_user |-> FALSE],
              [user_id |-> None, email |-> None, name |-> None,
               is_service_user |-> TRUE] }
        \* role defaults to 'user', auto_groups to [], resend_invitation to
        \* False; state=absent requires user_id; a resend task is kept at the
        \* default role and groups
        UserParams ==
            { p \in { [state |-> s, check_mode |-> c, user_id |-> t.user_id,
                       email |-> t.email, name |-> t.name,
                       is_service_user |-> t.is_service_user, role |-> r,
                       auto_groups |-> g, is_blocked |-> b,
                       resend_invitation |-> i] :
                      s \in States, c \in BOOLEAN, t \in UserTargets,
                      r \in {"user", "admin"},
                      g \in {<<>>, <<"g1", "g2">>, <<"g2", "g1">>},
                      b \in OptBool, i \in BOOLEAN } :
                /\ p.state = "absent" => p.user_id # None
                /\ p.resend_invitation => (p.role = "user" /\ p.auto_groups = <<>>) }
        \* user_id is required; state=absent requires token_id and
        \* state=present requires name (an empty string satisfies either)
        TokenParams ==
            { [state |-> "present", check_mode |-> c, user_id |-> "u1",
               token_id |-> None, name |-> n] : c \in BOOLEAN, n \in {"a", "b"} }
            \cup
            { [state |-> "absent", check_mode |-> c, user_id |-> "u1",
               token_id |-> t.id, name |-> t.name] :
              c \in BOOLEAN,
              t \in { [id |-> "e1", name |-> None], [id |-> "", name |-> "a"],
                      [id |-> "", name |-> None] } }
        \* peer_id is required
        PeerParams ==
            { [state |-> s, check_mode |-> c, peer_id |-> i, name |-> n,
               ssh_enabled |-> e] :
              s \in States, c \in BOOLEAN, i \in {"e1", "e2"},
              n \in {None, "a", "b"}, e \in OptBool }
        AccountParams ==
            { [state |-> s, check_mode |-> c, account_id |-> i,
               peer_login_expiration_enabled |-> e, dns_domain |-> d,
               jwt_allow_groups |-> g] :
              s \in States, c \in BOOLEAN, i \in {None, "e1", "e2"},
              e \in OptBool, d \in {None, "nb.example"},
              g \in {NoneL, <<"g1", "g2">>, <<"g2", "g1">>} }
        \* resource is required
        InfoParams ==
            { [check_mode |-> c, resource |-> r] :
              c \in BOOLEAN, r \in {"groups", "policies", "users", "dns_settings"} }
    IN CASE m = "netbird_group" -> GroupParams
         [] m = "netbird_policy" -> PolicyParams
         [] m = "netbird_posture_check" -> PostureCheckParams
         [] m = "netbird_setup_key" -> SetupKeyParams
         [] m = "netbird_route" -> RouteParams
         [] m = "netbird_dns" -> NsGroupParams \cup DnsSettingsParams
         [] m = "netbird_user" -> UserParams
         [] m = "netbird_token" -> TokenParams
         [] m = "netbird_peer" -> PeerParams
         [] m = "netbird_account" -> AccountParams
         [] OTHER -> InfoParams

\* the entities the remote holds when a task of module m starts: none, or
\* the one with id e1
RemotesOf(m) ==
    CASE m \in {"netbird_group", "netbird_info"} ->
           { <<>>,
             << [id |-> "e1", name |-> "a", peers |-> <<"p1", "p2">>] >> }
      [] m = "netbird_policy" ->
           { <<>>,
             << [id |-> "e1", name |-> "a", description |-> "", enabled |-> TRUE,
                 rules |-> <<"r1">>] >> }
      [] m = "netbird_posture_check" ->
           { <<>>,
             << [id |-> "e1", name |-> "a", description |-> "",
                 checks |-> "c1"] >> }
      [] m = "netbird_setup_key" ->
           { <<>>,
             << [id |-> "e1", name |-> "a", type |-> "one-off", revoked |-> FALSE,
                 auto_groups |-> <<"g1", "g2">>] >> }
      [] m = "netbird_route" ->
           { <<>>,
             << [id |-> "e1", network_id |-> "r1", network |-> "10.0.0.0/24",
                 peer |-> "P1", peer_groups |-> AbsentL, metric |-> 9999,
                 groups |-> <<"g1", "g2">>] >>,
             << [id |-> "e1", network_id |-> "r1", network |-> "10.0.0.0/24",
                 peer |-> Absent, peer_groups |-> <<"g2", "g1">>, metric |-> 9999,
                 groups |-> <<>>] >> }
      [] m = "netbird_dns" ->
           { <<>>,
             << [id |-> "e1", name |-> "a", nameservers |-> <<"ns1">>,
                 groups |-> <<"g1", "g2">>, domains |-> <<"d1", "d2">>,
                 primary |-> FALSE] >> }
      [] m = "netbird_user" ->
           { <<>>,
             << [id |-> "e1", email |-> "a@x", name |-> "a", role |-> "user",
                 auto_groups |-> <<>>, is_service_user |-> FALSE,
                 is_blocked |-> SomeB(FALSE)] >>,
             << [id |-> "e1", email |-> Absent, name |-> "s", role |-> "admin",
                 auto_groups |-> <<"g1", "g2">>, is_service_user |-> TRUE,
                 is_blocked |-> NoneB] >> }
      [] m = "netbird_token" ->
           { <<>>, << [id |-> "e1", name |-> "a"] >> }
      [] m = "netbird_peer" ->
           { <<>>, << [id |-> "e1", name |-> "a", ssh_enabled |-> SomeB(FALSE)] >> }
      [] OTHER ->
           { <<>>,
             << [id |-> "e1",
                 settings |-> [peer_login_expiration_enabled |-> SomeB(TRUE),
                               dns_domain |-> Absent,
                               jwt_allow_groups |-> <<"g1", "g2">>,
                               jwt_groups_claim_name |-> "roles"]] >> }

\* a task of a single-entity module, before its first run
InitEntity ==
    /\ module \in EntityModules
    /\ entities \in RemotesOf(module)
    /\ dns_settings \in (IF module \in {"netbird_dns", "netbird_info"}
                         THEN {NoSettings,
                               [disabled_management_groups |-> <<"g1", "g2">>]}
                         ELSE {NoSettings})
    /\ nextId = Len(entities) + 1
    /\ existing_entity = NoEntity
    /\ net = NoNet
    /\ routers = <<>>
    /\ resources = <<>>
    /\ start = [entities |-> entities, dns_settings |-> dns_settings]
    /\ params = [check_mode |-> TRUE]
    /\ pc = "idle"
    /\ current_network_id = None
    /\ network_changed = FALSE
    /\ plan = <<>>
    /\ pos = 1
    /\ final = <<>>
    /\ chg = FALSE
    /\ result = EntityResult
    /\ calls = <<>>
    /\ runs = 0
    /\ prev = NoPrev

InitAll == Init \/ InitEntity

\* main() of a single-entity module
StartModule ==
    /\ pc = "idle"
    /\ module # "netbird_network"
    /\ \E p \in ParamsOf(module) : StartEntityRun(p)

NextAll ==
    \/ Next
    \/ StartModule
    \/ RerunEntity
    \/ FindGroup
    \/ DeleteGroup
    \/ UpdateGroup
    \/ CreateGroup
    \/ FindPolicy
    \/ DeletePolicy
    \/ UpdatePolicy
    \/ CreatePolicy
    \/ FindPostureCheck
    \/ DeletePostureCheck
    \/ UpdatePostureCheck
    \/ CreatePostureCheck
    \/ FindSetupKey
    \/ DeleteSetupKey
    \/ UpdateSetupKey
    \/ CreateSetupKey
    \/ FindRoute
    \/ DeleteRoute
    \/ UpdateRoute
    \/ CreateRoute
    \/ GetDnsSettings
    \/ UpdateDnsSettings
    \/ FindNameserverGroup
    \/ DeleteNameserverGroup
    \/ UpdateNameserverGroup
    \/ CreateNameserverGroup
    \/ ResendUserInvitation
    \/ FindUser
    \/ DeleteUser
    \/ UpdateUser
    \/ CreateUser
    \/ DeleteTokenById
    \/ FindTokenByName
    \/ DeleteToken
    \/ CreateToken
    \/ FindPeer
    \/ DeletePeer
    \/ UpdatePeer
    \/ ListAccounts
    \/ DeleteAccount
    \/ UpdateAccount
    \/ GatherInfo

\* every module of the collection, one task per behaviour
AllModules == InitAll /\ [][NextAll]_vars

\* ========================================================================
\* Properties
\* ========================================================================
RouterCalls ==
    { "list_network_routers", "create_network_router",
      "update_network_router", "delete_network_router" }

ResourceCalls ==
    { "list_network_resources", "create_network_resource",
      "update_network_resource", "delete_network_resource" }

\* the calls of the run so far whose name is in ops
CallsOf(ops) == SelectSeq(calls, LAMBDA c : c.op \in ops)

NoCallOf(ops) == \A i \in 1..Len(calls) : calls[i].op \notin ops

\* positions in the call log of the calls named op
Positions(op) == {i \in 1..Len(calls) : calls[i].op = op}

Finished == pc = "done" /\ runs > 0

Succeeded == Finished /\ ~result.failed

\* the run repeats a run that was applied (not check mode) and succeeded
RepeatsAppliedRun == prev.valid /\ ~prev.check_mode

\* the run applies what the previous run only checked
AppliesCheckedRun == prev.valid /\ prev.check_mode

\* NaturalKeys of the desired lists and of listed collections
DesiredRouterKeys == {DesiredRouterKey(params.routers.list[i]) :
                        i \in 1..Len(params.routers.list)}

DesiredAddresses == {params.resources.list[i].address :
                       i \in 1..Len(params.resources.list)}

KeysOfRouters(coll) == {get_router_key(coll[i]) : i \in 1..Len(coll)}

AddressesOf(coll) == {coll[i].address : i \in 1..Len(coll)}

IdsIn(coll) == {coll[i].id : i \in 1..Len(coll)}

\* keys of the plan's iterations of one kind
PlanKeys(kind) == {plan[i].key : i \in {j \in 1..Len(plan) : plan[j].kind = kind}}

\* C1 (as claimed): a state=present run that repeats an applied, successful
\* run of the same parameters issues no create, update or delete call and
\* reports changed = false.
C1_Idempotence ==
    (RepeatsAppliedRun /\ params.state = "present")
        => /\ NoCallOf(Mutating)
           /\ Succeeded => ~result.changed

\* the remote as it was when the run started
RemoteAsAtStart ==
    IF module = "netbird_network"
    THEN net = start.net /\ routers = start.routers /\ resources = start.resources
    ELSE entities = start.entities /\ dns_settings = start.dns_settings

\* C2: a check-mode run of any module, for either state and against any
\* remote, issues no create, update, delete or resend call; the calls it
\* issues are list / get calls, and the remote stays as it was at the start
\* of the run.
C2_DryRunPure ==
    (runs > 0 /\ params.check_mode) =>
        /\ NoCallOf(Mutating)
        /\ \A i \in 1..Len(calls) : calls[i].op \in Reading
        /\ RemoteAsAtStart

\* a finished check-mode run of netbird_network whose plan changes routers
\* and resources
C2_Witness ==
    /\ module = "netbird_network"
    /\ Succeeded
    /\ params.check_mode
    /\ result.routers_changed
    /\ result.resources_changed
    /\ start.routers # <<>>

\* C3 (as claimed): an applied, successful run that follows a check-mode run
\* of the same parameters on the same remote reports the changed value the
\* check-mode run reported, and for netbird_network also the same
\* routers_changed and resources_changed.
C3_TruthfulAsClaimed ==
    (AppliesCheckedRun /\ Succeeded) =>
        /\ result.changed = prev.changed
        /\ module = "netbird_network" =>
              /\ result.routers_changed = prev.routers_changed
              /\ result.resources_changed = prev.resources_changed

\* C3 (amended): the changed value is the same for every module; for
\* netbird_network routers_changed and resources_changed are the same when
\* the run finds the network, and when the run creates the network the
\* check-mode run has reported both as false.
C3_DryRunTruthful ==
    (AppliesCheckedRun /\ Succeeded) =>
        /\ result.changed = prev.changed
        /\ module = "netbird_network" =>
              IF NoCallOf({"create_network"})
              THEN /\ result.routers_changed = prev.routers_changed
                   /\ result.resources_changed = prev.resources_changed
              ELSE /\ ~prev.routers_changed
                   /\ ~prev.resources_changed

\* an applied run on an existing network that changed routers, after a
\* check-mode run that had announced it
C3_Witness ==
    /\ AppliesCheckedRun
    /\ Succeeded
    /\ module = "netbird_network"
    /\ NoCallOf({"create_network"})
    /\ result.routers_changed
    /\ prev.routers_changed
    /\ ~result.resources_changed

\* C4: an omitted routers (resources) parameter causes no call on the
\* network's routers (resources), reports routers_changed (resources_changed)
\* false and leaves the remote collection as it was.
C4_OmittedUntouched ==
    runs > 0 =>
        /\ ~params.routers.given =>
              /\ NoCallOf(RouterCalls)
              /\ ~result.routers_changed
              /\ routers = start.routers
        /\ ~params.resources.given =>
              /\ NoCallOf(ResourceCalls)
              /\ ~result.resources_changed
              /\ resources = start.resources

\* an applied run that left a non-empty router collection alone while it
\* changed the resources
C4_Witness ==
    /\ Succeeded
    /\ ~params.check_mode
    /\ ~params.routers.given
    /\ start.routers # <<>>
    /\ params.resources.given
    /\ result.resources_changed

ExactlyOne(a, b, c) == (a /\ ~b /\ ~c) \/ (~a /\ b /\ ~c) \/ (~a /\ ~b /\ c)

\* keys of the listed collection and of the desired list of the running sync
ListedKeys ==
    IF pc = "sync_routers" THEN KeysOfRouters(start.routers)
    ELSE AddressesOf(start.resources)

WantedKeys ==
    IF pc = "sync_routers" THEN DesiredRouterKeys ELSE DesiredAddresses

C8_OrderAsClaimed ==
    /\ \A i \in Positions("create_network_router"),
          j \in Positions("update_network_router") : i < j
    /\ \A i \in Positions("update_network_router"),
          j \in Positions("delete_network_router") : i < j
    /\ \A i \in Positions("create_network_resource"),
          j \in Positions("update_network_resource") : i < j
    /\ \A i \in Positions("update_network_resource"),
          j \in Positions("delete_network_resource") : i < j

\* C8 (amended): within one collection every create call and every update
\* call precedes every delete call.
C8_UpsertsBeforeDeletes ==
    /\ \A i \in Positions("create_network_router") \cup Positions("update_network_router"),
          j \in Positions("delete_network_router") : i < j
    /\ \A i \in Positions("create_network_resource") \cup Positions("update_network_resource"),
          j \in Positions("delete_network_resource") : i < j

\* a run that updated one router, created another and deleted a third
C8_Witness ==
    /\ Positions("update_network_router") # {}
    /\ Positions("create_network_router") # {}
    /\ Positions("delete_network_router") # {}

\* iterations of the running plan that create or update
UpsertSteps == {i \in 1..Len(plan) : plan[i].kind \in {"create", "update"}}

\* C9: no delete call of a collection is issued before every create and
\* update of that collection's plan has succeeded; a run that fails in a
\* create or update has deleted no record of the collection.
C9_TeardownLast ==
    /\ (pc = "sync_routers" /\ Positions("delete_network_router") # {}) =>
          /\ \A i \in UpsertSteps : i < pos
          /\ Cardinality({i \in Positions("create_network_router")
                              \cup Positions("update_network_router") : calls[i].ok})
                = Cardinality(UpsertSteps)
    /\ (pc = "sync_resources" /\ Positions("delete_network_resource") # {}) =>
          /\ \A i \in UpsertSteps : i < pos
          /\ Cardinality({i \in Positions("create_network_resource")
                              \cup Positions("update_network_resource") : calls[i].ok})
                = Cardinality(UpsertSteps)
    /\ (Finished /\ result.failed /\ calls # <<>>) =>
          /\ calls[Len(calls)].op \in {"create_network_router", "update_network_router"} =>
                /\ Positions("delete_network_router") = {}
                /\ IdsIn(start.routers) \subseteq IdsIn(routers)
          /\ calls[Len(calls)].op \in {"create_network_resource", "update_network_resource"} =>
                /\ Positions("delete_network_resource") = {}
                /\ IdsIn(start.resources) \subseteq IdsIn(resources)

\* a run failed in a router create or update while a delete was still planned
C9_Witness ==
    /\ Finished
    /\ result.failed
    /\ calls # <<>>
    /\ calls[Len(calls)].op \in {"create_network_router", "update_network_router"}
    /\ \E i \in 1..Len(plan) : plan[i].kind = "delete"
    /\ start.routers # <<>>

\* two desired routers of one key, or two desired resources of one address
HasDuplicateKeys ==
    \/ \E i, j \in 1..Len(params.routers.list) :
          /\ i # j
          /\ DesiredRouterKey(params.routers.list[i]) = DesiredRouterKey(params.routers.list[j])
    \/ \E i, j \in 1..Len(params.resources.list) :
          /\ i # j
          /\ params.resources.list[i].address = params.resources.list[j].address

\* C10 (as claimed): a desired list with a duplicate key makes the run fail
\* before any collaborator call.
C10_DuplicatesRejected ==
    (runs > 0 /\ HasDuplicateKeys) =>
        /\ calls = <<>>
        /\ Finished => result.failed

\* a desired router names nobody, or both a peer and peer groups
HasInvalidRouter ==
    \E i \in 1..Len(params.routers.list) :
        LET r == params.routers.list[i]
        IN (r.peer # None) = (r.peer_groups # NoneL)

\* C11: a task with a desired router that supplies neither peer nor
\* peer_groups, or both, fails before any collaborator call; every desired
\* router of a run that gets as far as sync_routers supplies exactly one.
C11_RouterIdentsValidated ==
    /\ (runs > 0 /\ HasInvalidRouter) =>
          /\ pc = "done"
          /\ result.failed
          /\ calls = <<>>
          /\ RemoteAsAtStart
    /\ pc \in {"list_routers", "sync_routers"} => ~HasInvalidRouter

\* a task whose second router supplies both was rejected
C11_Witness ==
    /\ Finished
    /\ result.failed
    /\ calls = <<>>
    /\ Len(params.routers.list) = 2
    /\ params.routers.list[2].peer # None
    /\ params.routers.list[2].peer_groups # NoneL

\* a router record with its peer_groups replaced
WithGroups(router, groups) == [router EXCEPT !.peer_groups = groups]

\* C12: for every router record, on the remote or in the desired list, the
\* record with peer_groups = [], with peer_groups = None and with no
\* peer_groups field (same peer) has one and the same NaturalKey, through
\* get_router_key and through the key construction of sync_routers.
C12_EmptyGroupsSameKey ==
    \A r \in ToSet(routers) \cup ToSet(start.routers) \cup ToSet(params.routers.list) :
        /\ get_router_key(WithGroups(r, <<>>)) = get_router_key(WithGroups(r, NoneL))
        /\ get_router_key(WithGroups(r, <<>>)) = get_router_key(WithGroups(r, AbsentL))
        /\ DesiredRouterKey(WithGroups(r, <<>>)) = DesiredRouterKey(WithGroups(r, NoneL))
        /\ DesiredRouterKey(WithGroups(r, <<>>)) = DesiredRouterKey(WithGroups(r, AbsentL))
        /\ get_router_key(WithGroups(r, <<>>)) = DesiredRouterKey(WithGroups(r, NoneL))

\* a desired router that leaves peer_groups out (None) was matched with a
\* remote router that has no peer_groups field
C12_Witness ==
    /\ pc = "sync_routers"
    /\ \E i \in 1..Len(plan) :
          /\ plan[i].kind \in {"keep", "update"}
          /\ plan[i].current.peer_groups = AbsentL
          /\ \E j \in 1..Len(params.routers.list) :
                /\ DesiredRouterKey(params.routers.list[j]) = plan[i].key
                /\ params.routers.list[j].peer_groups = NoneL

\* the router records that differ from r by the order of peer_groups
Reordered(r) ==
    IF r.peer_groups \in {NoneL, AbsentL} THEN {r}
    ELSE { WithGroups(r, [i \in 1..Len(r.peer_groups) |-> r.peer_groups[f[i]]]) :
             f \in Permutations(1..Len(r.peer_groups)) }

\* C13: reordering peer_groups changes neither the key get_router_key gives
\* a record nor the key sync_routers builds for a desired router, and a
\* desired list with the peer_groups of its routers reordered gets the same
\* plan: the same creates, updates, keeps and deletes of the same keys.
C13_KeyOrderIndependent ==
    /\ \A r \in ToSet(routers) \cup ToSet(params.routers.list) :
          \A q \in Reordered(r) :
              /\ get_router_key(q) = get_router_key(r)
              /\ DesiredRouterKey(q) = DesiredRouterKey(r)
    /\ (pc = "sync_routers" /\ pos = 1) =>
          \A other \in [1..Len(params.routers.list) -> ToSet(routers) \cup
                              UNION {Reordered(d) : d \in ToSet(params.routers.list)}] :
              (\A i \in 1..Len(other) : other[i] \in Reordered(params.routers.list[i]))
                => LET p == RouterPlan(CurrentByKey(routers), DesiredByKey(other))
                   IN /\ Len(p) = Len(plan)
                      /\ \A i \in 1..Len(p) : /\ p[i].kind = plan[i].kind
                                               /\ p[i].key = plan[i].key
                                               /\ p[i].id = plan[i].id

\* a sync whose desired router gives its peer groups in descending order,
\* against a remote that has routers
C13_Witness ==
    /\ pc = "sync_routers"
    /\ pos = 1
    /\ routers # <<>>
    /\ \E j \in 1..Len(params.routers.list) :
          params.routers.list[j].peer_groups = <<"g2", "g1">>

\* the 404 that the lookup by id takes as "no such network"
ToleratedLookup(i) ==
    /\ i = 1
    /\ calls[i].op = "get_network"
    /\ TruthyS(params.network_id)
    /\ calls[i].id = params.network_id
    /\ ~(start.net # NoNet /\ start.net.id = params.network_id)

\* the steps of the plan in hand that were applied with a call
AppliedSteps == {i \in 1..(pos - 1) : plan[i].kind # "keep"}

SucceededCalls(ops) == {i \in 1..Len(calls) : calls[i].ok /\ calls[i].op \in ops}

\* a state of a run as the failure of a call leaves it
AbortedOnFailure ==
    /\ result.failed => pc = "done"
    /\ \A i \in 1..Len(calls) :
          ~calls[i].ok =>
              \/ ToleratedLookup(i)
              \/ /\ i = Len(calls)
                 /\ result.failed
                 /\ result.status_code \in FailStatus
    /\ (result.failed /\ calls # <<>>) =>
          LET last == calls[Len(calls)].op
          IN /\ last \in (RouterCalls \ {"list_network_routers"}) =>
                  /\ pos <= Len(plan)
                  /\ Cardinality(SucceededCalls(RouterCalls \
                                    {"list_network_routers"}))
                        = Cardinality(AppliedSteps)
             /\ last \in (ResourceCalls \ {"list_network_resources"}) =>
                  /\ pos <= Len(plan)
                  /\ Cardinality(SucceededCalls(ResourceCalls \
                                    {"list_network_resources"}))
                        = Cardinality(AppliedSteps)

\* C14: a collaborator call that fails, other than the 404 of the lookup by
\* id, is the last call of its run: the run ends failed at once, the failed
\* call changes nothing on the remote, no call follows it (no retry, no
\* remaining step, no compensating call) and the remote stays as the steps
\* that succeeded before it left it.
C14_FailureAborts ==
    [][ /\ AbortedOnFailure'
        /\ (calls' # calls /\ calls' # <<>> /\ ~calls'[Len(calls')].ok)
              => UNCHANGED remoteVars
        /\ (result.failed /\ runs' = runs) => UNCHANGED <<remoteVars, calls>> ]_vars

\* a sync that created one router and failed on the create of the next
C14_Witness ==
    /\ Finished
    /\ result.failed
    /\ Len(calls) >= 2
    /\ calls[Len(calls)].op = "create_network_router"
    /\ ~calls[Len(calls)].ok
    /\ calls[Len(calls) - 1].op = "create_network_router"
    /\ calls[Len(calls) - 1].ok
    /\ Len(routers) = Len(start.routers) + 1

\* keys of the creates and updates applied so far in the plan in hand
AppliedUpsertKeys ==
    {plan[i].key : i \in {j \in AppliedSteps : plan[j].kind \in {"create", "update"}}}

\* the run failed on a create, update or delete call of the named sync
FailedDuring(ops) ==
    /\ Finished
    /\ result.failed
    /\ calls # <<>>
    /\ ~calls[Len(calls)].ok
    /\ calls[Len(calls)].op \in ops

\* C15 (as claimed): a sync that fails part-way returns the message, status
\* code and response body of the failure, and a routers (resources)
\* collection holding the records of all the creates and updates completed
\* before the failure, and of nothing that was not completed.
C15_FailureResult ==
    /\ FailedDuring(RouterCalls \ {"list_network_routers"}) =>
          /\ result.msg # ""
          /\ result.status_code \in FailStatus
          /\ result.response # Absent
          /\ AppliedUpsertKeys \subseteq KeysOfRouters(result.routers)
          /\ ToSet(result.routers) \subseteq ToSet(final)
    /\ FailedDuring(ResourceCalls \ {"list_network_resources"}) =>
          /\ result.msg # ""
          /\ result.status_code \in FailStatus
          /\ result.response # Absent
          /\ AppliedUpsertKeys \subseteq AddressesOf(result.resources)
          /\ ToSet(result.resources) \subseteq ToSet(final)

\* the create, update and keep steps of the plan in hand, in plan order
UpsertPlan == SelectSeq(plan, LAMBDA s : s.kind # "delete")

\* a sync has gone through its whole plan and is about to return
SyncReturns(at) == pc = at /\ pos > Len(plan)

\* C16 (as claimed): the collection a check-mode sync returns has, in plan
\* order, the desired payload merged onto the current record for every
\* record that would be updated, a placeholder built from the desired
\* payload (id 0: no id) for every record that would be created, the
\* current record for every unchanged one, and nothing for a deleted one.
C16_DryRunProjection ==
    /\ (params.check_mode /\ SyncReturns("sync_routers")) =>
          /\ Len(final) = Len(UpsertPlan)
          /\ \A i \in 1..Len(final) :
                final[i] = IF UpsertPlan[i].kind = "update"
                           THEN MergeRouter(UpsertPlan[i].current, UpsertPlan[i].data)
                           ELSE UpsertPlan[i].current
    /\ (params.check_mode /\ SyncReturns("sync_resources")) =>
          /\ Len(final) = Len(UpsertPlan)
          /\ \A i \in 1..Len(final) :
                final[i] = IF UpsertPlan[i].kind = "update"
                           THEN MergeResource(UpsertPlan[i].current, UpsertPlan[i].data)
                           ELSE UpsertPlan[i].current

\* C17 (as claimed): the list a successful sync that is not a check-mode
\* sync returns has exactly one entry for every desired NaturalKey and for
\* no other key, every entry being a record the remote holds (returned by
\* the create or update call, or the current record), and has no record
\* whose key was deleted.
C17_ResultCollection ==
    /\ (~params.check_mode /\ SyncReturns("sync_routers")) =>
          /\ Len(final) = Cardinality(DesiredRouterKeys)
          /\ KeysOfRouters(final) = DesiredRouterKeys
          /\ ToSet(final) \subseteq ToSet(routers)
          /\ KeysOfRouters(final) \cap PlanKeys("delete") = {}
    /\ (~params.check_mode /\ SyncReturns("sync_resources")) =>
          /\ Len(final) = Cardinality(DesiredAddresses)
          /\ AddressesOf(final) = DesiredAddresses
          /\ ToSet(final) \subseteq ToSet(resources)
          /\ AddressesOf(final) \cap PlanKeys("delete") = {}

\* the lookup of the run found the network on the remote
NetworkFound ==
    IF TruthyS(params.network_id)
    THEN start.net # NoNet /\ start.net.id = params.network_id
    ELSE TruthyS(params.name) /\ start.net # NoNet /\ start.net.name = params.name

\* C18: a check-mode run with state = present whose lookup finds no network
\* issues no create_network call and no list, create, update or delete call
\* on routers or resources, whatever routers and resources it was given; it
\* changes nothing and returns changed = true, a network record holding the
\* desired name and description only (no id), no routers, no resources,
\* routers_changed = false and resources_changed = false.
C18_DryRunNewNetwork ==
    (runs > 0 /\ params.check_mode /\ params.state = "present" /\ ~NetworkFound) =>
        /\ NoCallOf(Mutating \cup RouterCalls \cup ResourceCalls)
        /\ Len(calls) <= 1
        /\ RemoteAsAtStart
        /\ pc \in {"lookup", "done"}
        /\ Succeeded =>
              /\ result.changed
              /\ result.network = [id |-> Absent, name |-> params.name,
                                    description |-> params.description]
              /\ ~result.has_routers /\ result.routers = <<>>
              /\ ~result.has_resources /\ result.resources = <<>>
              /\ ~result.routers_changed
              /\ ~result.resources_changed

\* a check-mode run that would create a network with routers has finished
C18_Witness ==
    /\ Succeeded
    /\ params.check_mode
    /\ params.state = "present"
    /\ ~NetworkFound
    /\ params.routers.given
    /\ params.routers.list # <<>>
    /\ result.changed

\* the account the task addresses, as the remote held it at the start
AccountAtStart ==
    IF TruthyS(params.account_id)
    THEN start.entities[CHOOSE i \in 1..Len(start.entities) :
                            start.entities[i].id = params.account_id]
    ELSE start.entities[1]

\* a setting the task names has another value than the account's, a setting
\* the account does not have counting as another value
AccountSettingDiffers ==
    LET current == AccountAtStart.settings
    IN \/ /\ params.peer_login_expiration_enabled # NoneB
          /\ current.peer_login_expiration_enabled # params.peer_login_expiration_enabled
       \/ /\ params.dns_domain # None
          /\ current.dns_domain # params.dns_domain
       \/ /\ params.jwt_allow_groups # NoneL
          /\ current.jwt_allow_groups # params.jwt_allow_groups

DnsSettingDiffers ==
    /\ params.disabled_management_groups.given
    /\ ToSet(start.dns_settings.disabled_management_groups)
         # ToSet(params.disabled_management_groups.list)

\* C19: a state = present run on the account settings reports changed = true
\* exactly when a setting the task names differs from the account's current
\* value (a setting the account lacks differs); when none does it issues no
\* update_account call and leaves the remote as it was, and an update call
\* is only ever made when one differs. The same holds for the DNS settings
\* and disabled_management_groups, compared as a set of groups.
C19_SettingsChangeDetection ==
    /\ (module = "netbird_account" /\ runs > 0 /\ params.state = "present") =>
          /\ Succeeded =>
                /\ result.changed = AccountSettingDiffers
                /\ ~AccountSettingDiffers =>
                      NoCallOf({"update_account"}) /\ RemoteAsAtStart
                /\ (AccountSettingDiffers /\ ~params.check_mode) =>
                      Cardinality(Positions("update_account")) = 1
          /\ (pc = "update" \/ ~NoCallOf({"update_account"})) => AccountSettingDiffers
    /\ (module = "netbird_dns" /\ runs > 0 /\ params.state = "present"
           /\ params.resource_type = "settings") =>
          /\ Succeeded =>
                /\ result.changed = DnsSettingDiffers
                /\ ~DnsSettingDiffers =>
                      NoCallOf({"update_dns_settings"}) /\ RemoteAsAtStart
                /\ (DnsSettingDiffers /\ ~params.check_mode) =>
                      Cardinality(Positions("update_dns_settings")) = 1
          /\ (pc = "update_settings" \/ ~NoCallOf({"update_dns_settings"}))
                => DnsSettingDiffers

\* an account got a dns_domain it did not have: the run updated it and
\* reports changed
C19_Witness ==
    /\ module = "netbird_account"
    /\ Succeeded
    /\ params.state = "present"
    /\ params.dns_domain # None
    /\ params.peer_login_expiration_enabled = SomeB(TRUE)
    /\ AccountAtStart.settings.dns_domain = Absent
    /\ result.changed
    /\ ~NoCallOf({"update_account"})

\* the account the task addresses, as the remote holds it now
AccountNow ==
    IF TruthyS(params.account_id)
    THEN entities[CHOOSE i \in 1..Len(entities) : entities[i].id = params.account_id]
    ELSE entities[1]

\* C20: the settings that update_account sends, which the remote then holds
\* and the call returns, are the account's current settings with every
\* setting the task names replaced by the desired value and every other
\* setting kept as it was.
C20_SettingsMergeKeepsOthers ==
    (module = "netbird_account" /\ Succeeded /\ ~NoCallOf({"update_account"})) =>
        LET before == AccountAtStart.settings
            after == AccountNow.settings
        IN /\ after.peer_login_expiration_enabled =
                 IF params.peer_login_expiration_enabled # NoneB
                 THEN params.peer_login_expiration_enabled
                 ELSE before.peer_login_expiration_enabled
           /\ after.dns_domain =
                 IF params.dns_domain # None THEN params.dns_domain
                 ELSE before.dns_domain
           /\ after.jwt_allow_groups =
                 IF params.jwt_allow_groups # NoneL THEN params.jwt_allow_groups
                 ELSE before.jwt_allow_groups
           /\ after.jwt_groups_claim_name = before.jwt_groups_claim_name
           /\ result.entity = AccountNow
           /\ AccountNow.id = AccountAtStart.id

\* an update that names dns_domain only: the account keeps its
\* peer_login_expiration_enabled and its jwt_groups_claim_name
C20_Witness ==
    /\ module = "netbird_account"
    /\ Succeeded
    /\ ~NoCallOf({"update_account"})
    /\ params.dns_domain = "nb.example"
    /\ params.peer_login_expiration_enabled = NoneB
    /\ AccountNow.settings.dns_domain = "nb.example"
    /\ AccountNow.settings.peer_login_expiration_enabled = SomeB(TRUE)
    /\ AccountNow.settings.jwt_groups_claim_name = "roles"

\* the desired list is given and is a permutation of the current list
Permuted(current, desired) ==
    /\ desired # NoneL
    /\ Len(GetListOrEmpty(current)) = Len(desired)
    /\ ToSet(GetListOrEmpty(current)) = ToSet(desired)

\* the record found by the lookup of a single-entity module of the name
Found(m) == module = m /\ runs > 0 /\ Exists(existing_entity)

\* C21 (as claimed): in every comparator a desired list of groups or ids that
\* is a permutation of the current list counts as equal to it: the verdict is
\* the verdict for the current list itself, so the permutation alone never
\* gives an update call or changed = true. Comparators: resources (groups),
\* groups (peers), nameserver groups (groups, domains), setup keys and users
\* (auto_groups), routes (peer_groups, groups), DNS settings
\* (disabled_management_groups), account settings (jwt_allow_groups).
C21_ListsCompareAsSets ==
    LET e == existing_entity
    IN /\ (pc = "sync_resources") =>
            \A i \in 1..Len(plan) : \A d \in ToSet(params.resources.list) :
                (plan[i].kind # "create" /\ Permuted(plan[i].current.groups, d.groups))
                  => resource_needs_update(plan[i].current, d)
                       = resource_needs_update(plan[i].current,
                             [d EXCEPT !.groups = GetListOrEmpty(plan[i].current.groups)])
       /\ (Found("netbird_group") /\ Permuted(e.peers, params.peers)) =>
            group_needs_update(e, params)
              = group_needs_update(e, [params EXCEPT !.peers = e.peers])
       /\ (Found("netbird_dns") /\ Permuted(e.groups, params.groups)) =>
            nsgroup_needs_update(e, params)
              = nsgroup_needs_update(e, [params EXCEPT !.groups = e.groups])
       /\ (Found("netbird_dns") /\ Permuted(e.domains, params.domains)) =>
            nsgroup_needs_update(e, params)
              = nsgroup_needs_update(e, [params EXCEPT !.domains = e.domains])
       /\ (Found("netbird_setup_key") /\ Permuted(e.auto_groups, params.auto_groups)) =>
            setup_key_needs_update(e, params)
              = setup_key_needs_update(e, [params EXCEPT !.auto_groups = e.auto_groups])
       /\ (Found("netbird_user") /\ Permuted(e.auto_groups, params.auto_groups)) =>
            user_needs_update(e, params)
              = user_needs_update(e, [params EXCEPT !.auto_groups = e.auto_groups])
       /\ (Found("netbird_route") /\ Permuted(e.peer_groups, params.peer_groups)) =>
            route_needs_update(e, params)
              = route_needs_update(e, [params EXCEPT !.peer_groups =
                                          GetListOrEmpty(e.peer_groups)])
       /\ (Found("netbird_route") /\ Permuted(e.groups, params.groups)) =>
            route_needs_update(e, params)
              = route_needs_update(e, [params EXCEPT !.groups = e.groups])
       /\ (module = "netbird_dns" /\ Succeeded /\ params.state = "present"
             /\ params.resource_type = "settings"
             /\ Permuted(start.dns_settings.disabled_management_groups,
                         IF params.disabled_management_groups.given
                         THEN params.disabled_management_groups.list ELSE NoneL)) =>
            ~result.changed /\ NoCallOf({"update_dns_settings"})
       /\ (Found("netbird_account")
             /\ Permuted(e.settings.jwt_allow_groups, params.jwt_allow_groups)) =>
            settings_need_update(e.settings, build_settings_update(params))
              = settings_need_update(e.settings,
                    build_settings_update([params EXCEPT !.jwt_allow_groups =
                                              e.settings.jwt_allow_groups]))

\* a present run of the named module found its entity and succeeded
Reconciled(m) == Found(m) /\ Succeeded /\ params.state = "present"

\* the update the run reports, and made with one call of op unless it is a
\* check-mode run
UpdatedWith(op) ==
    /\ result.changed
    /\ Cardinality(Positions(op)) = IF params.check_mode THEN 0 ELSE 1

NotUpdatedWith(op) == ~result.changed /\ NoCallOf({op})

\* C22: for an existing policy a run that supplies rules plans update_policy
\* and reports changed = true whether or not the rules equal the current
\* ones, and a run that does not supply them updates exactly when name,
\* description or enabled differs; the same for a posture check with checks
\* (name, description) and for a nameserver group with nameservers (name,
\* primary, and groups and domains as sets).
C22_NestedFieldsForceUpdate ==
    LET e == existing_entity
    IN /\ Reconciled("netbird_policy") =>
            IF params.rules.given THEN UpdatedWith("update_policy")
            ELSE IF \/ params.name # None /\ e.name # params.name
                    \/ params.description # None /\ e.description # params.description
                    \/ e.enabled # params.enabled
                 THEN UpdatedWith("update_policy")
                 ELSE NotUpdatedWith("update_policy")
       /\ Reconciled("netbird_posture_check") =>
            IF params.checks # None THEN UpdatedWith("update_posture_check")
            ELSE IF \/ params.name # None /\ e.name # params.name
                    \/ params.description # None /\ e.description # params.description
                 THEN UpdatedWith("update_posture_check")
                 ELSE NotUpdatedWith("update_posture_check")
       /\ (Reconciled("netbird_dns") /\ params.resource_type = "nameserver_group") =>
            IF params.nameservers.given THEN UpdatedWith("update_nameserver_group")
            ELSE IF \/ params.name # None /\ e.name # params.name
                    \/ e.primary # params.primary
                    \/ ToSet(e.groups) # ToSet(params.groups)
                    \/ ToSet(e.domains) # ToSet(params.domains)
                 THEN UpdatedWith("update_nameserver_group")
                 ELSE NotUpdatedWith("update_nameserver_group")

\* a policy was updated with the rules, name, description and enabled flag
\* it already had
C22_Witness ==
    /\ Reconciled("netbird_policy")
    /\ ~params.check_mode
    /\ params.rules.given
    /\ params.rules.list = existing_entity.rules
    /\ params.name \in {None, existing_entity.name}
    /\ params.description = existing_entity.description
    /\ params.enabled = existing_entity.enabled
    /\ result.changed
    /\ ~NoCallOf({"update_policy"})

\* C23 (as claimed): for every single-entity module and every task with
\* state = present, a run that repeats an applied, successful run of the same
\* parameters, against the remote as that run left it, issues no mutating
\* call and reports changed = false.
C23_EntityIdempotence ==
    (module \in EntityModules \ {"netbird_info"} /\ RepeatsAppliedRun
       /\ params.state = "present") =>
        /\ NoCallOf(Mutating)
        /\ Succeeded => ~result.changed

\* the remote held nothing a task could address when the run started
RemoteEmptyAtStart ==
    IF module = "netbird_network" THEN start.net = NoNet
    ELSE start.entities = <<>>

\* C24 (as claimed): in every module a state = absent run whose target is not
\* on the remote, because the remote is empty or because the run repeats a
\* successful applied state = absent run, issues no delete call and, unless a
\* call is failed by the remote with a server error, ends without failure
\* and with changed = false.
C24_DeleteIdempotence ==
    (module # "netbird_info" /\ runs > 0 /\ params.state = "absent"
       /\ (RepeatsAppliedRun \/ RemoteEmptyAtStart)) =>
        /\ NoCallOf(Mutating)
        /\ (Finished /\ result.status_code \notin FailStatus) =>
              ~result.failed /\ ~result.changed


\* the kind of a NetBirdAPIError as its handlers tell it: e.status_code == 404
\* is a missing entity, the -1 of the URLError and SSLError handlers a lost
\* connection, any other code a failed request
ErrorKind(e) ==
    IF e.status_code = 404 THEN "NotFound"
    ELSE IF e.status_code = -1 THEN "ConnectionFailed"
    ELSE "RequestFailed"

\* the body of an HTTPError as _request parses it
ParsedBody(f) ==
    CASE f.body = "json" -> "error body"
      [] f.body = "text" -> "error text"
      [] OTHER -> None

\* the failure that ended the run was translated from some outcome of open_url
RunErrorTranslated ==
    (Finished /\ result.failed /\ calls # <<>> /\ ~calls[Len(calls)].ok
        /\ ~ToleratedLookup(Len(calls))) =>
        \E f \in RequestFailures :
            /\ result.status_code = RequestError(f).status_code
            /\ result.response = RequestError(f).response
            /\ result.msg = RequestError(f).message

\* C25 (amended): every failure of _request is reported as exactly one of
\* NotFound (HTTP 404), RequestFailed (any other HTTP status, with that status
\* code and the parsed body) or ConnectionFailed (URL or TLS error), and a
\* ConnectionFailed error carries the status code -1 and no response body;
\* the failure that ends a run is such an error
C25_ErrorTranslation ==
    /\ \A f \in RequestFailures :
          LET e == RequestError(f) IN
          /\ ErrorKind(e) = "NotFound" <=> (f.raised = "HTTPError" /\ f.code = 404)
          /\ ErrorKind(e) = "RequestFailed" <=> (f.raised = "HTTPError" /\ f.code # 404)
          /\ ErrorKind(e) = "ConnectionFailed" <=> f.raised \in {"URLError", "SSLError"}
          /\ f.raised = "HTTPError" =>
                e.status_code = f.code /\ e.response = ParsedBody(f)
          /\ ErrorKind(e) = "ConnectionFailed" =>
                e.status_code = -1 /\ e.response = None
    /\ RunErrorTranslated

\* a run ended by a lost connection
C25_Witness ==
    /\ Finished
    /\ result.failed
    /\ calls # <<>>
    /\ ~calls[Len(calls)].ok
    /\ result.status_code = -1
    /\ result.response = None

\* C25 (as claimed): a run ended by a ConnectionFailed error (one with no
\* response body) reports no status code
C25_ConnectionFailedNoStatus ==
    (Finished /\ result.failed /\ calls # <<>> /\ ~calls[Len(calls)].ok
        /\ result.response = None) => result.status_code = 0


\* the run began with the lookup of its entity by the id the task names
LookedUpById ==
    /\ runs > 0
    /\ calls # <<>>
    /\ \/ calls[1].op \in {"get_network", "get_group", "get_policy",
                           "get_posture_check", "get_setup_key", "get_route",
                           "get_nameserver_group", "get_peer"}
       \/ /\ module = "netbird_user"
          /\ calls[1].op = "list_users"
          /\ TruthyS(params.user_id)

LookupTarget == IF module = "netbird_user" THEN params.user_id ELSE calls[1].id

\* the remote had an entity of that id when the run began
PresentAtStart(id) ==
    IF module = "netbird_network"
    THEN start.net # NoNet /\ start.net.id = id
    ELSE HasId(start.entities, id)

\* the run ended at the lookup, failed by something other than a 404
LookupFailed ==
    /\ Len(calls) = 1
    /\ ~calls[1].ok
    /\ pc = "done"
    /\ result.failed
    /\ result.status_code \in FailStatus

CreateCalls ==
    { "create_network", "create_network_router", "create_network_resource",
      "create_group", "create_policy", "create_posture_check",
      "create_setup_key", "create_route", "create_nameserver_group",
      "create_user" }

\* C26: a lookup by id that finds nothing makes the entity absent: the run
\* goes on, for state=absent to changed=false with no mutating call, for
\* state=present to a create (reported only, in check mode) or to the refusal
\* to create, never to an update or delete; a lookup by id that fails in any
\* other way ends the run, failed with the status code and message of that
\* failure, before any mutating call
C26_TolerantLookup ==
    LookedUpById =>
        /\ (~calls[1].ok /\ PresentAtStart(LookupTarget)) => LookupFailed
        /\ (~calls[1].ok /\ ~LookupFailed) =>
              ~(result.failed /\ result.status_code = 404)
        /\ LookupFailed =>
              \E f \in RequestFailures :
                  /\ ErrorKind(RequestError(f)) # "NotFound"
                  /\ result.status_code = RequestError(f).status_code
                  /\ result.msg = RequestError(f).message
        /\ (Finished /\ ~PresentAtStart(LookupTarget) /\ ~LookupFailed) =>
              IF params.state = "absent"
              THEN ~result.failed /\ ~result.changed /\ NoCallOf(Mutating)
              ELSE /\ \A i \in 1..Len(calls) :
                         calls[i].op \in Mutating => calls[i].op \in CreateCalls
                   /\ result.failed =>
                         \/ result.status_code = 0
                         \/ Len(calls) > 1
                   /\ ~result.failed =>
                         /\ result.changed
                         /\ params.check_mode => NoCallOf(Mutating)
                         /\ ~params.check_mode =>
                               \E i \in 1..Len(calls) : calls[i].op \in CreateCalls

\* an applied run that got a 404 for the id and created the entity
C26_Witness ==
    /\ LookedUpById
    /\ Finished
    /\ ~PresentAtStart(LookupTarget)
    /\ ~calls[1].ok
    /\ params.state = "present"
    /\ ~result.failed
    /\ \E i \in 1..Len(calls) : calls[i].op \in CreateCalls


\* a call of one of ops succeeded before the i-th call of the run
AnsweredBefore(i, ops) ==
    \E j \in 1..(i - 1) : calls[j].ok /\ calls[j].op \in ops

AtStart(coll, id) == coll[CHOOSE j \in 1..Len(coll) : coll[j].id = id]

\* C28: a router that an update call targeted keeps its peer and its set of
\* peer_groups, a resource its address; an update is planned only for a
\* desired record whose key is the key of the current record it targets, a
\* desired record whose key no current record has is created, and a current
\* record whose key no desired record has is deleted
C28_KeyImmutable ==
    /\ \A i \in 1..Len(routers) :
          HasId(start.routers, routers[i].id) =>
              LET old == AtStart(start.routers, routers[i].id)
              IN /\ GetPeer(routers[i]) = GetPeer(old)
                 /\ ToSet(GetListOrEmpty(routers[i].peer_groups))
                        = ToSet(GetListOrEmpty(old.peer_groups))
    /\ \A i \in 1..Len(resources) :
          HasId(start.resources, resources[i].id) =>
              resources[i].address = AtStart(start.resources, resources[i].id).address
    /\ pc \in {"sync_routers", "sync_resources"} =>
          \A i \in 1..Len(plan) :
              /\ plan[i].kind = "update" =>
                    /\ plan[i].key \in ListedKeys
                    /\ plan[i].id = plan[i].current.id
                    /\ plan[i].key = IF pc = "sync_routers"
                                     THEN get_router_key(plan[i].current)
                                     ELSE plan[i].current.address
              /\ (plan[i].kind # "delete" /\ plan[i].key \notin ListedKeys) =>
                    plan[i].kind = "create"
              /\ plan[i].kind = "delete" =>
                    plan[i].key \in ListedKeys \ WantedKeys
    /\ pc \in {"sync_routers", "sync_resources"} =>
          \A k \in ListedKeys \ WantedKeys :
              \E i \in 1..Len(plan) : plan[i].kind = "delete" /\ plan[i].key = k

\* a router and a resource have been updated by a run that also replaces
\* a record by one of another key
C28_Witness ==
    /\ pc = "sync_resources"
    /\ \E j \in Positions("update_network_router") : calls[j].ok
    /\ \E i \in 1..Len(plan) : plan[i].kind = "update" /\ i < pos
    /\ \E i \in 1..Len(plan) : plan[i].kind = "delete"


\* no two routers of the collection have the same (peer, sorted peer_groups)
DistinctRouterKeys(coll) ==
    \A i, j \in 1..Len(coll) :
        get_router_key(coll[i]) = get_router_key(coll[j]) => i = j

DistinctAddresses(coll) ==
    \A i, j \in 1..Len(coll) : coll[i].address = coll[j].address => i = j

\* a run has ended, by completing or by the failure of a call
RunEnded == runs > 0 /\ pc = "done"

\* C29 (as claimed): after every run, completed or aborted, the routers of
\* the network have pairwise distinct (peer, sorted peer_groups) keys and the
\* resources pairwise distinct addresses, and no sync plans the create of a
\* record whose key a listed record has.
C29_KeyUniqueness ==
    /\ RunEnded => DistinctRouterKeys(routers) /\ DistinctAddresses(resources)
    /\ pc = "sync_routers" =>
          \A i \in 1..Len(plan) :
              plan[i].kind = "create" =>
                  get_router_key(StoreRouter(0, plan[i].data))
                      \notin KeysOfRouters(start.routers)
    /\ pc = "sync_resources" =>
          \A i \in 1..Len(plan) :
              plan[i].kind = "create" =>
                  plan[i].key \notin AddressesOf(start.resources)


\* the (peer, sorted peer_groups) NaturalKey of a desired router, an omitted
\* peer being no peer
NaturalKey(d) ==
    <<IF TruthyS(d.peer) THEN d.peer ELSE "", Sorted(GetListOrEmpty(d.peer_groups))>>

\* the iterations of the plan in hand of one kind
StepsOf(kind) == {i \in 1..Len(plan) : plan[i].kind = kind}

\* C30 (as claimed): in the plan of a sync over a desired list of distinct
\* keys, a desired router whose key a current router has gets exactly one
\* update, of that router's id, iff its metric or masquerade differs, and
\* otherwise no update, and is neither created nor deleted; a desired
\* resource whose address a current resource has gets exactly one update iff
\* name, description, enabled or the set of groups differs; a desired record
\* whose key no current record has gets exactly one create; and an applied
\* sync that has gone through its plan has issued one call per such step.
C30_DiffCorrectness ==
    /\ pc = "sync_routers" =>
          LET des == params.routers.list
              cur == start.routers
          IN \A n \in 1..Len(des) :
                 (\A m \in 1..Len(des) : NaturalKey(des[m]) = NaturalKey(des[n]) => m = n)
                 => IF NaturalKey(des[n]) \in KeysOfRouters(cur)
                    THEN LET c == cur[CHOOSE j \in 1..Len(cur) :
                                        get_router_key(cur[j]) = NaturalKey(des[n])]
                         IN /\ Cardinality({i \in StepsOf("update") : plan[i].id = c.id})
                                  = IF \/ c.metric # des[n].metric
                                       \/ c.masquerade # des[n].masquerade
                                    THEN 1 ELSE 0
                            /\ \A i \in StepsOf("delete") : plan[i].id # c.id
                            /\ \A i \in StepsOf("create") :
                                   get_router_key(StoreRouter(0, plan[i].data))
                                       # NaturalKey(des[n])
                    ELSE Cardinality({i \in StepsOf("create") :
                                         get_router_key(StoreRouter(0, plan[i].data))
                                             = NaturalKey(des[n])}) = 1
    /\ pc = "sync_resources" =>
          LET des == params.resources.list
              cur == start.resources
          IN \A n \in 1..Len(des) :
                 (\A m \in 1..Len(des) : des[m].address = des[n].address => m = n)
                 => IF des[n].address \in AddressesOf(cur)
                    THEN LET c == cur[CHOOSE j \in 1..Len(cur) :
                                        cur[j].address = des[n].address]
                         IN /\ Cardinality({i \in StepsOf("update") : plan[i].id = c.id})
                                  = IF \/ c.name # des[n].name
                                       \/ c.description # des[n].description
                                       \/ c.enabled # des[n].enabled
                                       \/ ToSet(GetListOrEmpty(c.groups))
                                              # ToSet(GetListOrEmpty(des[n].groups))
                                    THEN 1 ELSE 0
                            /\ \A i \in StepsOf("delete") : plan[i].id # c.id
                            /\ \A i \in StepsOf("create") : plan[i].key # des[n].address
                    ELSE Cardinality({i \in StepsOf("create") :
                                         plan[i].key = des[n].address}) = 1
    /\ (SyncReturns("sync_routers") /\ ~params.check_mode) =>
          /\ Cardinality(Positions("update_network_router"))
                 = Cardinality(StepsOf("update"))
          /\ Cardinality(Positions("create_network_router"))
                 = Cardinality(StepsOf("create"))
    /\ (SyncReturns("sync_resources") /\ ~params.check_mode) =>
          /\ Cardinality(Positions("update_network_resource"))
                 = Cardinality(StepsOf("update"))
          /\ Cardinality(Positions("create_network_resource"))
                 = Cardinality(StepsOf("create"))


\* an applied state=present run of module m has succeeded on an entity that
\* existed when it began
AppliedOn(m) == Reconciled(m) /\ ~params.check_mode /\ HasId(entities, existing_entity.id)

\* the entity as the remote holds it after the run
Remote == GetEntity(existing_entity.id)

\* a list the task supplies and the remote's list hold the same elements
SameElements(supplied, stored) ==
    supplied # NoneL => ToSet(GetListOrEmpty(stored)) = ToSet(supplied)

\* C31 (as claimed): after a successful applied state=present run on an
\* existing group, setup key, route, user, policy, nameserver group or peer,
\* every field the task supplies equals the field of the remote entity.
C31_EntityConvergence ==
    /\ AppliedOn("netbird_group") =>
          /\ params.name # None => Remote.name = params.name
          /\ SameElements(params.peers, Remote.peers)
    /\ AppliedOn("netbird_setup_key") =>
          /\ params.name # None => Remote.name = params.name
          /\ Remote.type = params.key_type
          /\ Remote.revoked = params.revoked
          /\ SameElements(params.auto_groups, Remote.auto_groups)
    /\ AppliedOn("netbird_route") =>
          /\ params.network # None => Remote.network = params.network
          /\ Remote.metric = params.metric
          /\ params.peer_id # None => GetOrNone(Remote.peer) = params.peer_id
          /\ SameElements(params.peer_groups, Remote.peer_groups)
          /\ SameElements(params.groups, Remote.groups)
    /\ AppliedOn("netbird_user") =>
          /\ Remote.role = params.role
          /\ params.is_blocked.given => Remote.is_blocked = params.is_blocked
          /\ SameElements(params.auto_groups, Remote.auto_groups)
          /\ params.email # None => Remote.email = params.email
          /\ params.name # None => Remote.name = params.name
    /\ AppliedOn("netbird_policy") =>
          /\ params.name # None => Remote.name = params.name
          /\ Remote.description = params.description
          /\ Remote.enabled = params.enabled
          /\ params.rules.given => Remote.rules = params.rules.list
    /\ (AppliedOn("netbird_dns") /\ params.resource_type = "nameserver_group") =>
          /\ params.name # None => Remote.name = params.name
          /\ params.nameservers.given => Remote.nameservers = params.nameservers.list
          /\ SameElements(params.groups, Remote.groups)
          /\ SameElements(params.domains, Remote.domains)
          /\ Remote.primary = params.primary
    /\ AppliedOn("netbird_peer") =>
          /\ params.name # None => Remote.name = params.name
          /\ params.ssh_enabled.given => Remote.ssh_enabled = params.ssh_enabled


\* a user the remote held when the run began has the NaturalKey of the
\* desired user: its name for a service user, else its email
KeyedUserAtStart ==
    \E i \in 1..Len(start.entities) :
        LET u == start.entities[i]
        IN IF params.is_service_user
           THEN TruthyS(params.name) /\ u.is_service_user /\ u.name = params.name
           ELSE TruthyS(params.email) /\ u.email = params.email

\* C32 (as claimed): a state=present run of netbird_user whose desired user
\* has the NaturalKey of a current user issues no create_user call, and in
\* check mode finds that user, whatever email, name and is_service_user the
\* task supplies.
C32_UserResolution ==
    (module = "netbird_user" /\ runs > 0 /\ params.state = "present"
        /\ KeyedUserAtStart) =>
        /\ NoCallOf({"create_user"})
        /\ pc # "create"
        /\ (Succeeded /\ ~params.resend_invitation) => Exists(existing_entity)


\* the plan has a create, an update or a delete
HasSteps(p) == \E i \in 1..Len(p) : p[i].kind # "keep"

\* what the list call of a sync answers: the collection as the run found
\* it, nothing for a network the run created
Listed(coll) == IF Positions("create_network") # {} THEN <<>> ELSE coll

\* the run created or updated the network, or would in check mode
NetworkCreatedOrUpdated ==
    /\ params.state = "present"
    /\ \/ ~NetworkFound
       \/ network_needs_update(start.net, params)

\* the router and resource flags of a successful result: true iff the sync
\* ran and its plan has a create, update or delete
SyncFlags ==
    /\ result.routers_changed <=>
          /\ Positions("list_network_routers") # {}
          /\ HasSteps(RouterPlan(CurrentByKey(Listed(start.routers)),
                                 DesiredByKey(params.routers.list)))
    /\ result.resources_changed <=>
          /\ Positions("list_network_resources") # {}
          /\ HasSteps(ResourcePlan(ByAddress(Listed(start.resources)),
                                   ByAddress(params.resources.list)))

\* C33 (amended): in every successful netbird_network result routers_changed
\* is true iff the router sync ran and its plan has at least one create,
\* update or delete, resources_changed likewise, and changed is true iff the
\* network itself was created, updated or deleted (or would be, in check
\* mode) or routers_changed or resources_changed is true
C33_ChangeFlags ==
    Succeeded =>
        /\ SyncFlags
        /\ result.changed <=>
              \/ NetworkCreatedOrUpdated
              \/ params.state = "absent" /\ NetworkFound
              \/ result.routers_changed
              \/ result.resources_changed

\* a successful run that changed the network's description and nothing else
C33_Witness ==
    /\ Succeeded
    /\ params.state = "present"
    /\ NetworkFound
    /\ network_needs_update(start.net, params)
    /\ params.routers.given
    /\ ~result.routers_changed
    /\ ~result.resources_changed
    /\ result.changed

\* C33 (as claimed): changed is true iff the network itself was created or
\* updated or routers_changed or resources_changed is true.
C33_ChangeFlagsAsClaimed ==
    Succeeded =>
        /\ SyncFlags
        /\ result.changed <=>
              \/ NetworkCreatedOrUpdated
              \/ result.routers_changed
              \/ result.resources_changed


\* C34 (as claimed): the key sync_routers computes for a desired router is
\* get_router_key of the record the remote stores when that router is
\* created, so a run that repeats an applied run of the same routers neither
\* creates nor deletes a router.
C34_CreatedRouterRematched ==
    /\ pc = "sync_routers" =>
          \A i \in StepsOf("create") :
              get_router_key(StoreRouter(nextId, plan[i].data)) = plan[i].key
    /\ (RepeatsAppliedRun /\ params.state = "present") =>
          NoCallOf({"create_network_router", "delete_network_router"})

\* the update and delete calls of the two child collections
WriteOps ==
    { "update_network_router", "delete_network_router",
      "update_network_resource", "delete_network_resource" }

\* the sync is about to update or delete a listed record that is no longer
\* on the remote
TargetGone ==
    /\ pc \in {"sync_routers", "sync_resources"}
    /\ pos <= Len(plan)
    /\ plan[pos].kind \in {"update", "delete"}
    /\ ~params.check_mode
    /\ ~HasId(IF pc = "sync_routers" THEN routers ELSE resources, plan[pos].id)

\* the run failed on a not-found answer to its last call, a write
NotFoundSurfaced ==
    /\ pc = "done"
    /\ result.failed
    /\ result.msg # ""
    /\ calls # <<>>
    /\ calls[Len(calls)].op \in WriteOps
    /\ ~calls[Len(calls)].ok

\* C35: when a listed router or resource was deleted on the remote by another
\* actor before the run's update or delete of it, that call fails and the
\* failure ends the run as a failure: the call is the last call of the run,
\* nothing is created or otherwise written on the remote, and the failed run
\* issues no further call.
C35_ExternalDeleteFails ==
    [][ /\ TargetGone =>
              /\ NotFoundSurfaced'
              /\ result'.status_code \in FailStatus \cup {404}
              /\ calls' = Append(calls, Call(calls'[Len(calls')].op, plan[pos].id, FALSE))
              /\ remoteVars' = remoteVars
        /\ (pc = "done" /\ result.failed) => calls' = calls
      ]_vars

\* a run ended on the 404 of an update or delete of a record that had been
\* listed and was deleted by another actor
C35_Witness ==
    /\ NotFoundSurfaced
    /\ result.status_code = 404
    /\ \/ HasId(start.routers, calls[Len(calls)].id)
       \/ HasId(start.resources, calls[Len(calls)].id)
    /\ ~HasId(routers, calls[Len(calls)].id)
    /\ ~HasId(resources, calls[Len(calls)].id)

\* the supplied name or the description (empty when omitted) is not the one
\* the network had when the run started
MetadataDiffers ==
    \/ params.name # None /\ params.name # start.net.name
    \/ params.description # start.net.description

\* a state = present run whose lookup found the network and that is past the
\* update_network step
MetadataSettled ==
    /\ runs > 0
    /\ module = "netbird_network"
    /\ params.state = "present"
    /\ NetworkFound
    /\ calls # <<>>
    /\ calls[1].ok
    /\ pc \notin {"idle", "lookup", "update_network"}

\* C36: for a network the lookup found, update_network is called iff the run
\* is not in check mode and the supplied name is not None and differs from
\* the current name or the description, empty when omitted, differs from the
\* current description; the call carries the network's id, is the call right
\* after the lookup, the network counts as changed iff the metadata differs
\* (unless that call failed), and a run that gives only network_id against a
\* network with an empty description calls no update_network.
C36_NetworkUpdateRule ==
    /\ (runs > 0 /\ module = "netbird_network" /\ pc = "update_network") =>
          /\ MetadataDiffers
          /\ ~params.check_mode
          /\ NetworkFound
    /\ MetadataSettled =>
          /\ Positions("update_network") # {} <=>
                MetadataDiffers /\ ~params.check_mode
          /\ \A i \in Positions("update_network") :
                /\ i = 2
                /\ calls[i].id = start.net.id
          /\ (\A i \in Positions("update_network") : calls[i].ok) =>
                (network_changed <=> MetadataDiffers)
          /\ (Succeeded /\ MetadataDiffers) => result.changed
          /\ (params.name = None /\ params.description = ""
                 /\ start.net.description = "") =>
                NoCallOf({"update_network"})
          /\ SucceededCalls({"update_network"}) # {} =>
                /\ net.description = params.description
                /\ net.name = IF params.name # None THEN params.name
                                                      ELSE start.net.name

\* a run that gave network_id only, not in check mode, against a network with
\* a description: update_network was called and cleared the description
C36_Witness ==
    /\ MetadataSettled
    /\ ~params.check_mode
    /\ params.name = None
    /\ start.net.description = "d"
    /\ params.description = ""
    /\ SucceededCalls({"update_network"}) # {}
    /\ net.description = ""
    /\ Succeeded
    /\ result.changed

\* a netbird_user run with resend_invitation true and a user_id
ResendRun ==
    /\ runs > 0
    /\ module = "netbird_user"
    /\ params.resend_invitation
    /\ TruthyS(params.user_id)

\* C37: a netbird_user run with resend_invitation true and a user_id issues
\* no call but resend_user_invitation for that id, at most one, and none in
\* check mode; it looks no user up and creates, updates and deletes none,
\* whatever state and the other parameters are; when it ends without a
\* failed call it reports changed = true with the resent message, and it
\* fails only on the failure of that one call.
C37_ResendTakesPrecedence ==
    ResendRun =>
        /\ pc \in {"find", "done"}
        /\ Len(calls) <= 1
        /\ \A i \in 1..Len(calls) :
              /\ calls[i].op = "resend_user_invitation"
              /\ calls[i].id = params.user_id
        /\ params.check_mode => calls = <<>>
        /\ entities = start.entities
        /\ existing_entity = NoEntity
        /\ pc = "done" =>
              /\ result.failed <=> (calls # <<>> /\ ~calls[1].ok)
              /\ ~result.failed =>
                    /\ result.changed
                    /\ result.msg = "Invitation resent successfully"
                    /\ params.check_mode \/ Len(calls) = 1

\* a resend run with state = absent on a user that exists, not in check mode,
\* ended: one resend call, and the user is still there
C37_Witness ==
    /\ ResendRun
    /\ params.state = "absent"
    /\ ~params.check_mode
    /\ Succeeded
    /\ Len(calls) = 1
    /\ calls[1].ok
    /\ HasId(entities, params.user_id)
    /\ result.changed

\* number of calls of the run so far whose name is in ops
CountOf(ops) == Len(CallsOf(ops))

\* a run is under way
Running == runs > 0 /\ pc # "done"

\* the run's outcome and the size of its call log
OneOutcomeAndBoundedCalls ==
    /\ Running => ~result.failed
    /\ Finished =>
          /\ result.failed => (result.msg # "" /\ ~result.changed)
          /\ result.changed \in BOOLEAN
    /\ runs > 0 =>
          /\ CountOf({"create_network_router", "update_network_router",
                      "delete_network_router"})
                <= Cardinality(DesiredRouterKeys)
                   + Cardinality(KeysOfRouters(start.routers))
          /\ CountOf({"create_network_resource", "update_network_resource",
                      "delete_network_resource"})
                <= Cardinality(DesiredAddresses)
                   + Cardinality(AddressesOf(start.resources))
          /\ pc \in {"sync_routers", "sync_resources"} =>
                Cardinality(StepsOf("create") \cup StepsOf("update")
                            \cup StepsOf("delete"))
                   <= Cardinality(WantedKeys) + Cardinality(ListedKeys)
          /\ CountOf({"create_network", "update_network", "delete_network"}) <= 1
          /\ CountOf(Reading) <= 5
          /\ \A i \in 1..Len(calls) : calls[i].op \in Mutating \cup Reading

\* C38: every run that starts ends, as a success whose result carries
\* changed or as a failure with a message and never both; it issues finitely
\* many calls, the create, update and delete calls on routers being at most
\* the distinct desired router keys plus the distinct current router keys,
\* and likewise for resources and their addresses.
C38_RunTerminates ==
    /\ []OneOutcomeAndBoundedCalls
    /\ Running ~> Finished

\* a run ended in success after as many router calls as the bound allows:
\* one create for the desired key and one delete for each of two current keys
C38_Witness ==
    /\ Succeeded
    /\ ~params.check_mode
    /\ Cardinality(DesiredRouterKeys) = 1
    /\ Cardinality(KeysOfRouters(start.routers)) = 2
    /\ CountOf({"create_network_router", "update_network_router",
                "delete_network_router"}) = 3

\* a state = present run, not in check mode, that was given routers or
\* resources and ended in success
RefreshedRun ==
    /\ Succeeded
    /\ module = "netbird_network"
    /\ params.state = "present"
    /\ ~params.check_mode
    /\ params.routers.given \/ params.resources.given

\* the result after the refresh
RefreshedResult ==
    RefreshedRun =>
        /\ calls[Len(calls)] = Call("get_network", current_network_id, TRUE)
        /\ result.network = NetworkRecord(net, routers, resources)
        /\ result.has_routers <=> params.routers.given
        /\ result.has_resources <=> params.resources.given
        /\ result.has_routers =>
              \A i \in 1..Len(result.routers) :
                  /\ HasId(routers, result.routers[i].id)
                  /\ result.routers[i] = AtStart(routers, result.routers[i].id)
        /\ result.has_resources =>
              \A i \in 1..Len(result.resources) :
                  /\ HasId(resources, result.resources[i].id)
                  /\ result.resources[i] = AtStart(resources, result.resources[i].id)
        /\ ~result.has_routers => result.routers = <<>>
        /\ ~result.has_resources => result.resources = <<>>

\* C39: in a run that is not in check mode and was given routers or
\* resources, the network record of the result is the one get_network
\* answers after all sync steps, and the refresh leaves the routers and
\* resources entries as sync_routers / sync_resources built them: the entry
\* of a collection that was given is there with the synced records, the
\* entry of a collection that was not given is not added.
C39_RefreshKeepsLists ==
    /\ []RefreshedResult
    /\ [][ (pc = "refresh" /\ ~result'.failed) =>
              /\ pc' = "done"
              /\ result'.network = NetworkRecord(net, routers, resources)
              /\ result'.has_routers = result.has_routers
              /\ result'.routers = result.routers
              /\ result'.has_resources = result.has_resources
              /\ result'.resources = result.resources
              /\ result'.changed = result.changed
      ]_vars

\* a refreshed run that was given routers only and created one: the record
\* carries the count after the sync, the synced routers, and no resources
C39_Witness ==
    /\ RefreshedRun
    /\ params.routers.given
    /\ ~params.resources.given
    /\ result.routers # <<>>
    /\ ~result.has_resources
    /\ result.network.routing_peers_count # Len(start.routers)
    /\ result.network.routing_peers_count = Len(routers)

====
